---- MODULE Spec2Model ----
(***************************************************************************)
(* Motion-analysis core of the TalentTrack app (src/src/lib/metrics.ts).   *)
(*                                                                         *)
(* Numbers.  Angles (degrees) and positions (pixels) are JavaScript        *)
(* doubles in the source.  Here they are fixed-point integers, Unit        *)
(* parts to one degree or pixel; Unit is a multiple of 2, 4 and of every   *)
(* window length 1..5, so every mean the source computes is exact.         *)
(* Timestamps are integer milliseconds.  Number(x.toFixed(d)) is the       *)
(* rounding ToFixed; its results are integers in units of 10^-d.           *)
(* A nullable field is Null (the empty tuple) or Some(v) (a 1-tuple).      *)
(***************************************************************************)
EXTENDS Integers, Sequences, FiniteSets, TLC

(* ----------------------------- bounds --------------------------------- *)
\* frame-analysis calls made in one session, per activity
MaxPushupFrames == 4
MaxPullupFrames == 4
MaxSitupFrames == 7
MaxJumpFrames == 5
MaxShuttleFrames == 7
MaxReachFrames == 4
\* frame-analysis calls of a session fed with timestamps in any order
MaxUnorderedFrames == 3
\* frame-analysis calls made in all on the two states of the two-state harness
MaxTwoFrames == 3
\* frames the camera sends to the pose model in one live session
MaxLiveSends == 3
\* times the Stop Workout button is pressed in one live session
MaxStops == 2
\* length of the analysed video, in frames of 1/30 s
MaxVideoFrames == 3
\* frame-analysis calls of a push-up session long enough for a dip of several frames
MaxDipFrames == 6
\* rows of a push-up ledger handed to the summarizer
MaxLedgerLen == 3
\* seconds of the mock recording flow that are followed, and button presses in them
MaxFlowTime == 34
MaxUserActions == 4

(* ------------------------- numeric helpers ---------------------------- *)
Unit == 4 * 60

Null == <<>>
Some(v) == <<v>>

RECURSIVE Sum(_)
Sum(s) == IF s = <<>> THEN 0 ELSE Head(s) + Sum(Tail(s))

Pow10(d) == IF d = 0 THEN 1 ELSE IF d = 1 THEN 10 ELSE IF d = 2 THEN 100 ELSE 1000

\* n/d rounded to the nearest integer, halves away from zero (d > 0)
RoundDiv(n, d) == IF n >= 0 THEN (2 * n + d) \div (2 * d) ELSE 0 - ((2 * (0 - n) + d) \div (2 * d))

\* Number(x.toFixed(digits)) for x = v/per; the result is in units of 10^-digits
ToFixed(v, per, digits) == RoundDiv(v * Pow10(digits), per)

\* mutant: the window keeps only the newest sample, so nothing is smoothed
PushWindowLast(hist, x, n) == <<x>>

\* arr.push(x); if (arr.length > n) arr.shift()
PushWindow(hist, x, n) == LET h == Append(hist, x) IN IF Len(h) > n THEN Tail(h) ELSE h

\* mutant: the sum is divided by the capacity of the longest window, as if a
\* buffer that is not yet full were padded with zeros
MeanOverCapacity(hist) == Sum(hist) \div 5

\* arr.reduce((a, b) => a + b, 0) / arr.length
Mean(hist) == Sum(hist) \div Len(hist)

(* ----------------------------- landmarks ------------------------------ *)
(* A landmark array is abstracted to what the detectors read from it:      *)
(*   len     the array length (0 for an empty array);                      *)
(*   absent  the indices below len that hold no landmark;                  *)
(*   armL, armR  the geometry of each arm in pixel space:                  *)
(*           mag1 = |elbow->shoulder|, mag2 = |elbow->wrist|,              *)
(*           th = the angle between the two vectors, in degrees;           *)
(*   x, y    normalized coordinates of the joints read directly, in        *)
(*           thousandths of the frame width/height.                        *)
(* Frame sizes w, h are in thousands of pixels, so lm.x * w is in pixels.  *)
Arm(m1, m2, th) == [mag1 |-> m1, mag2 |-> m2, th |-> th]

StraightArm == Arm(100, 90, 170)
BentArm == Arm(100, 90, 60)

NumLandmarks == 32 + 1

Joints == {0, 11, 12, 13, 14, 15, 16, 23, 24, 27, 28, 31, 32}

Has(landmarks, i) == i < landmarks.len /\ i \notin landmarks.absent

\* lmXY(lm, w, h)[0] and [1], in fixed point
lmX(landmarks, i, w) == landmarks.x[i] * w * Unit
lmY(landmarks, i, h) == landmarks.y[i] * h * Unit

\* angle(a, b, c): dot = mag1*mag2*cos(th); cosang = dot/(mag1*mag2 + 1e-9),
\* which is cos(th) for proper vectors and 0 (so acos gives 90) when a vector
\* has length zero.  Result in degrees.
angle(arm) == IF arm.mag1 * arm.mag2 = 0 THEN 90 ELSE arm.th

\* try { lmXY(lm[leftIdx]) ... } catch { return null }: reading .x of an
\* undefined entry throws inside the try block.
averageAngleBetween(landmarks, leftIdx, midIdx, rightIdx) ==
  IF Has(landmarks, leftIdx) /\ Has(landmarks, midIdx) /\ Has(landmarks, rightIdx)
  THEN Some(angle(IF midIdx = 13 THEN landmarks.armL ELSE landmarks.armR))
  ELSE Null

\* angL != null && angR != null ? (angL + angR) / 2 : null, in fixed point
ElbowAngle(landmarks) ==
  LET angL == averageAngleBetween(landmarks, 11, 13, 15)
      angR == averageAngleBetween(landmarks, 12, 14, 16)
  IN  IF angL # Null /\ angR # Null THEN Some(((angL[1] + angR[1]) * Unit) \div 2) ELSE Null

(* ------------------------------ inputs -------------------------------- *)
FrameSizes == {<<1, 1>>}

\* a full 33-entry array with the given arms, every joint at (px, py)
Pose(aL, aR, px, py) ==
  [len |-> NumLandmarks, absent |-> {}, armL |-> aL, armR |-> aR,
   x |-> [i \in Joints |-> px], y |-> [i \in Joints |-> py]]

Without(landmarks, idx) == [landmarks EXCEPT !.absent = idx]

\* the same array with the joints idx moved to x = px
AtX(landmarks, idx, px) ==
  [landmarks EXCEPT !.x = [i \in Joints |-> IF i \in idx THEN px ELSE landmarks.x[i]]]

EmptyArray == [Pose(StraightArm, StraightArm, 0, 0) EXCEPT !.len = 0]

AtY(landmarks, idx, py) ==
  [landmarks EXCEPT !.y = [i \in Joints |-> IF i \in idx THEN py ELSE landmarks.y[i]]]

ArmPairs == { <<Arm(100, 90, 160), Arm(100, 90, 180)>>,
              <<BentArm, BentArm>>,
              <<Arm(100, 90, 90), Arm(0, 90, 0)>>,
              <<Arm(100, 90, 95), Arm(100, 90, 105)>> }

PushupFrames ==
  { Pose(p[1], p[2], 500, 500) : p \in ArmPairs }
  \cup { Without(Pose(BentArm, BentArm, 500, 500), {13}), EmptyArray }

PushupDeltas == {100, 200, 300}

\* elbow angles 60, 90 and 170 only, fed every 0.1 s
DipFrames ==
  { Pose(p[1], p[2], 500, 500) :
      p \in { <<BentArm, BentArm>>, <<Arm(100, 90, 90), Arm(0, 90, 0)>>,
              <<Arm(100, 90, 160), Arm(100, 90, 180)>> } }

DipDeltas == {100}

\* nose at y = 300 px (the stance) or 200 px (chin over the bar)
PullupFrames ==
  { Pose(a, a, 500, py) : a \in {StraightArm, BentArm}, py \in {200, 300} }
  \cup { Without(Pose(StraightArm, StraightArm, 500, 300), {14}),
         Without(Pose(StraightArm, StraightArm, 500, 200), {0}) }

PullupDeltas == {50, 100}

SitupFrames ==
  { Pose(a, a, 500, 500) : a \in {StraightArm, Arm(100, 90, 150), BentArm} }
  \cup { Without(Pose(BentArm, BentArm, 500, 500), {16}) }

SitupDeltas == {100}

\* both hips at the same height, or the left hip 4 px above the right one
JumpFrames ==
  { Pose(StraightArm, StraightArm, 500, py) : py \in {280, 340, 400, 514} }
  \cup { AtY(Pose(StraightArm, StraightArm, 500, 400), {23}, 396),
         Without(Pose(StraightArm, StraightArm, 500, 340), {23}) }

JumpFirstTimes == {0, 400}
JumpDeltas == {600}

ShuttleFrames ==
  { Pose(StraightArm, StraightArm, px, 800) : px \in {100, 200, 300} }
  \cup { Without(Pose(StraightArm, StraightArm, 200, 800), {27}) }

ShuttleDeltas == {100}

\* feet at x = 350 px, wrists short of, past, and well past them
ReachFrames ==
  { AtX(Pose(StraightArm, StraightArm, 350, 700), {15, 16}, px) : px \in {300, 400, 450} }
  \cup { Without(Pose(StraightArm, StraightArm, 350, 700), {31}) }

ReachDeltas == {100, 200}

(* ============================== PUSHUPS ================================ *)
\* mutant: one threshold in the middle of the band instead of the lower edge
DOWN_ANGLE_Mid == (75 + 110) \div 2

\* mutant: the dip is entered 15 degrees earlier
DOWN_ANGLE_High == 75 + 15

DOWN_ANGLE == 75
UP_ANGLE == 110

MIN_DIP_DURATION == 200

initPushupState ==
  [angleHistory |-> <<>>, state |-> "up", inDip |-> FALSE, dipStartTime |-> Null,
   currentDipMinAngle |-> 180 * Unit, reps |-> <<>>]

\* mutant: the minimum is lowered outside a dip as well
PushupTrackMinAlways(s, elbowSm) ==
  IF elbowSm < s.currentDipMinAngle THEN [s EXCEPT !.currentDipMinAngle = elbowSm] ELSE s

\* mutant: the minimum stays at the angle of the frame that entered the dip
PushupTrackMinFrozen(s, elbowSm) == s

\* if (state.inDip && elbowSm < state.currentDipMinAngle) state.currentDipMinAngle = elbowSm
PushupTrackMin(s, elbowSm) ==
  IF s.inDip /\ elbowSm < s.currentDipMinAngle THEN [s EXCEPT !.currentDipMinAngle = elbowSm] ELSE s

\* mutant: the depth test of the correctness flag is strict
PushupRepStrictDepth(s, t) ==
  LET dipDuration == t - (IF s.dipStartTime # Null THEN s.dipStartTime[1] ELSE t)
  IN  [count |-> Len(s.reps) + 1,
       down_time |-> ToFixed(IF s.dipStartTime # Null THEN s.dipStartTime[1] ELSE 0, 1000, 3),
       up_time |-> ToFixed(t, 1000, 3),
       dip_duration_sec |-> ToFixed(dipDuration, 1000, 3),
       min_elbow_angle |-> ToFixed(s.currentDipMinAngle, Unit, 2),
       correct |-> (s.currentDipMinAngle < DOWN_ANGLE * Unit /\ dipDuration >= MIN_DIP_DURATION)]

\* the RepRow built on a down -> up transition
PushupRep(s, t) ==
  LET dipDuration == t - (IF s.dipStartTime # Null THEN s.dipStartTime[1] ELSE t)
  IN  [count |-> Len(s.reps) + 1,
       down_time |-> ToFixed(IF s.dipStartTime # Null THEN s.dipStartTime[1] ELSE 0, 1000, 3),
       up_time |-> ToFixed(t, 1000, 3),
       dip_duration_sec |-> ToFixed(dipDuration, 1000, 3),
       min_elbow_angle |-> ToFixed(s.currentDipMinAngle, Unit, 2),
       correct |-> (s.currentDipMinAngle <= DOWN_ANGLE * Unit /\ dipDuration >= MIN_DIP_DURATION)]

\* Every frame-analysis operator returns the outcome of one call: the state
\* after it, the value returned (Null or Some(event)), the smoothed channel
\* value it computed (Null when the frame was rejected before smoothing) and
\* whether the call threw.
Outcome(s, r, v) == [state |-> s, ret |-> r, sm |-> v, thrown |-> FALSE]

Thrown(s) == [state |-> s, ret |-> Null, sm |-> Null, thrown |-> TRUE]

pushupFrameAnalysis(landmarks, w, h, t, state) ==
  LET elbowAngle == ElbowAngle(landmarks) IN
  IF landmarks.len = 0 \/ elbowAngle = Null
  THEN Outcome(state, Null, Null)
  ELSE
    LET hist == PushWindow(state.angleHistory, elbowAngle[1], 3)
        elbowSm == Mean(hist)
        s1 == [state EXCEPT !.angleHistory = hist]
    IN  IF s1.state = "up" /\ elbowSm <= DOWN_ANGLE * Unit
        THEN Outcome(PushupTrackMin([s1 EXCEPT !.state = "down", !.inDip = TRUE,
                                                !.dipStartTime = Some(t),
                                                !.currentDipMinAngle = elbowSm], elbowSm),
                     Null, Some(elbowSm))
        ELSE IF s1.state = "down" /\ elbowSm >= UP_ANGLE * Unit
        THEN IF s1.inDip
             THEN LET rep == PushupRep(s1, t)
                  IN  Outcome([s1 EXCEPT !.state = "up", !.reps = Append(s1.reps, rep),
                                         !.inDip = FALSE, !.dipStartTime = Null,
                                         !.currentDipMinAngle = 180 * Unit],
                              Some(rep), Some(elbowSm))
             ELSE Outcome(PushupTrackMin([s1 EXCEPT !.state = "up"], elbowSm), Null, Some(elbowSm))
        ELSE Outcome(PushupTrackMin(s1, elbowSm), Null, Some(elbowSm))

(* ============================== PULLUPS ================================ *)
BOTTOM_ANGLE == 160

\* mutant: a dip of any length counts
MIN_DIP_None == 100 - 100

\* mutant: the shortest dip that counts is half as long
MIN_DIP_Half == 100 \div 2

MIN_DIP == 100

initPullupState ==
  [angleHistory |-> <<>>, state |-> "waiting", inDip |-> FALSE, dipStartTime |-> Null,
   reps |-> <<>>, initialHeadY |-> Null]

PullupRep(s, t, smoothed) ==
  LET dipDuration == t - (IF s.dipStartTime # Null THEN s.dipStartTime[1] ELSE t)
  IN  [count |-> Len(s.reps) + 1,
       up_time |-> ToFixed(IF s.dipStartTime # Null THEN s.dipStartTime[1] ELSE 0, 1000, 2),
       down_time |-> ToFixed(t, 1000, 2),
       dip_duration_sec |-> ToFixed(dipDuration, 1000, 2),
       min_elbow_angle |-> ToFixed(smoothed, Unit, 2)]

\* mutant: the head baseline follows the head, it is taken anew on every frame
CaptureHeadYAlways(state, headY) ==
  IF headY # Null THEN [state EXCEPT !.initialHeadY = headY] ELSE state

\* if (state.initialHeadY == null && headY != null) state.initialHeadY = headY
CaptureHeadY(state, headY) ==
  IF state.initialHeadY = Null /\ headY # Null
  THEN [state EXCEPT !.initialHeadY = headY] ELSE state

pullupFrameAnalysis(landmarks, w, h, t, state) ==
  IF landmarks.len = 0 THEN Outcome(state, Null, Null)
  ELSE
    LET headY == IF Has(landmarks, 0) THEN Some(lmY(landmarks, 0, h)) ELSE Null
        elbowAngle == ElbowAngle(landmarks)
        s0 == CaptureHeadY(state, headY)
    IN  IF elbowAngle = Null \/ headY = Null THEN Outcome(s0, Null, Null)
        ELSE
          LET hist == PushWindow(s0.angleHistory, elbowAngle[1], 3)
              smoothed == Mean(hist)
              s1 == [s0 EXCEPT !.angleHistory = hist]
              base == IF s1.initialHeadY # Null THEN s1.initialHeadY[1] ELSE headY[1]
              dipDuration == t - (IF s1.dipStartTime # Null THEN s1.dipStartTime[1] ELSE t)
          IN  IF s1.state = "waiting" /\ headY[1] < base
              THEN Outcome([s1 EXCEPT !.state = "up", !.inDip = TRUE, !.dipStartTime = Some(t)],
                           Null, Some(smoothed))
              ELSE IF /\ s1.state = "up"
                      /\ smoothed > BOTTOM_ANGLE * Unit
                      /\ headY[1] >= base
                      /\ s1.inDip
                      /\ dipDuration >= MIN_DIP
              THEN LET rep == PullupRep(s1, t, smoothed)
                   IN  Outcome([s1 EXCEPT !.reps = Append(s1.reps, rep), !.inDip = FALSE,
                                          !.dipStartTime = Null, !.state = "waiting"],
                               Some(rep), Some(smoothed))
              ELSE Outcome(s1, Null, Some(smoothed))

(* =============================== SITUPS ================================ *)
\* mutant: a swing of 10 degrees already changes the phase
MIN_DIP_CHANGE_Small == 30 \div 3

MIN_DIP_CHANGE == 15

initSitupState ==
  [angleHistory |-> <<>>, state |-> "up", lastExtremeAngle |-> Null, dipStartTime |-> Null,
   reps |-> <<>>]

\* state.dipStartTime ? Number(state.dipStartTime.toFixed(3)) : 0 tests
\* truthiness: null and 0 both give 0
SitupRep(s, t, sm, extreme) ==
  [count |-> Len(s.reps) + 1,
   down_time |-> IF s.dipStartTime # Null /\ s.dipStartTime # Some(0)
                 THEN ToFixed(s.dipStartTime[1], 1000, 3) ELSE 0,
   up_time |-> ToFixed(t, 1000, 3),
   angle_change |-> ToFixed(sm - extreme, Unit, 2)]

\* mutant: a frame without a transition leaves the recorded extreme alone
SitupKeepExtreme(s, sm) == s

\* state.lastExtremeAngle = sm at the end of a call without a transition
SitupKeepLast(s, sm) == [s EXCEPT !.lastExtremeAngle = Some(sm)]

situpFrameAnalysis(landmarks, w, h, t, state) ==
  LET elbowAngle == ElbowAngle(landmarks) IN
  IF landmarks.len = 0 \/ elbowAngle = Null
  THEN Outcome(state, Null, Null)
  ELSE
    LET hist == PushWindow(state.angleHistory, elbowAngle[1], 5)
        sm == Mean(hist)
        extreme == IF state.lastExtremeAngle = Null THEN sm ELSE state.lastExtremeAngle[1]
        s1 == [state EXCEPT !.angleHistory = hist, !.lastExtremeAngle = Some(extreme)]
    IN  IF s1.state = "up" /\ extreme - sm >= MIN_DIP_CHANGE * Unit
        THEN Outcome([s1 EXCEPT !.state = "down", !.dipStartTime = Some(t),
                                !.lastExtremeAngle = Some(sm)], Null, Some(sm))
        ELSE IF s1.state = "down" /\ sm - extreme >= MIN_DIP_CHANGE * Unit
        THEN LET rep == SitupRep(s1, t, sm, extreme)
             IN  Outcome([s1 EXCEPT !.state = "up", !.reps = Append(s1.reps, rep),
                                    !.dipStartTime = Null, !.lastExtremeAngle = Some(sm)],
                         Some(rep), Some(sm))
        ELSE Outcome(SitupKeepLast(s1, sm), Null, Some(sm))

(* ============================ VERTICAL JUMP ============================ *)
\* mutant: a rise beyond 10 px already counts as a takeoff
TAKEOFF_RISE_Small == 20 \div 2

TAKEOFF_RISE == 20
LANDING_BAND == 5

initVerticalJumpState ==
  [hipHistory |-> <<>>, baselineY |-> Null, inAir |-> FALSE, peakY |-> Null,
   jumpCount |-> 0, jumpData |-> <<>>]

\* the ledger entry pushed at takeoff
NewJump(t) == [takeoff_time |-> t, landing_time |-> Null, jump_height_px |-> 0, air_time_s |-> 0]

\* mutant: the height is taken apex minus baseline (pixel y grows downward)
LandedJumpFlipped(entry, t, baselineY, peakY) ==
  [entry EXCEPT !.landing_time = Some(t),
                !.jump_height_px = ToFixed(peakY - baselineY, Unit, 2),
                !.air_time_s = ToFixed(t - entry.takeoff_time, 1000, 3)]

\* the last ledger entry as rewritten in place at landing
LandedJump(entry, t, baselineY, peakY) ==
  [entry EXCEPT !.landing_time = Some(t),
                !.jump_height_px = ToFixed(baselineY - peakY, Unit, 2),
                !.air_time_s = ToFixed(t - entry.takeoff_time, 1000, 3)]

\* mutant: the peak stays at the takeoff frame's height
TrackPeakFrozen(peak0, hipSm) == peak0

\* if (hipSm < (state.peakY ?? hipSm)) state.peakY = hipSm
TrackPeak(peak0, hipSm) == IF hipSm < peak0 THEN hipSm ELSE peak0

\* lmXY(landmarks[23], w, h) reads .x of undefined when the hip is absent: the
\* call throws a TypeError before the state is touched.
verticalJumpFrameAnalysis(landmarks, w, h, t, state) ==
  IF landmarks.len = 0 THEN Outcome(state, Null, Null)
  ELSE IF ~Has(landmarks, 23) \/ ~Has(landmarks, 24) THEN Thrown(state)
  ELSE
    LET midHipY == (lmY(landmarks, 23, h) + lmY(landmarks, 24, h)) \div 2
        hist == PushWindow(state.hipHistory, midHipY, 5)
        hipSm == Mean(hist)
        baselineY == IF state.baselineY = Null THEN hipSm ELSE state.baselineY[1]
        s1 == [state EXCEPT !.hipHistory = hist, !.baselineY = Some(baselineY)]
    IN  IF ~s1.inAir /\ hipSm < baselineY - TAKEOFF_RISE * Unit
        THEN Outcome([s1 EXCEPT !.inAir = TRUE, !.peakY = Some(hipSm),
                                !.jumpCount = s1.jumpCount + 1,
                                !.jumpData = Append(s1.jumpData, NewJump(t))],
                     Null, Some(hipSm))
        ELSE IF s1.inAir
        THEN LET peak0 == IF s1.peakY # Null THEN s1.peakY[1] ELSE hipSm
                 peakY == TrackPeak(peak0, hipSm)
                 n == Len(s1.jumpData)
             IN  IF hipSm >= baselineY - LANDING_BAND * Unit
                 THEN LET landed == LandedJump(s1.jumpData[n], t, baselineY, peakY)
                      IN  Outcome([s1 EXCEPT !.jumpData = [s1.jumpData EXCEPT ![n] = landed],
                                             !.inAir = FALSE, !.peakY = Null],
                                  Some(landed), Some(hipSm))
                 ELSE Outcome([s1 EXCEPT !.peakY = Some(peakY)], Null, Some(hipSm))
        ELSE Outcome(s1, Null, Some(hipSm))

(* ============================= SHUTTLE RUN ============================= *)
\* mutant: a delta beyond 2 px is already recorded
DELTA_PX_Small == 10 \div 5

DELTA_PX == 5

initShuttleState ==
  [xHistory |-> <<>>, dirHistory |-> <<>>, positions |-> <<>>, runCount |-> 0,
   status |-> "Waiting", direction |-> Null, startX |-> Null, lastX |-> Null]

ShuttleKeys == <<27, 28, 31, 32>>

\* keys.map(i => (landmarks[i]?.x ?? 0) * w), then the mean of the four
ShuttleCurrentX(landmarks, w) ==
  Sum([k \in 1..4 |-> IF Has(landmarks, ShuttleKeys[k]) THEN lmX(landmarks, ShuttleKeys[k], w) ELSE 0])
    \div 4

\* the direction history after this frame's delta (pushed only beyond 5 px)
ShuttleDirs(dirHistory, delta) ==
  LET pushed == IF delta > DELTA_PX * Unit THEN Append(dirHistory, "forward")
                ELSE IF delta < 0 - DELTA_PX * Unit THEN Append(dirHistory, "backward")
                ELSE dirHistory
  IN  IF Len(pushed) > 3 THEN Tail(pushed) ELSE pushed

\* mutant: a confirmed flip to backward decrements the run counter
ShuttleConfirmDecrement(s, confirmed, smoothedX) ==
  IF s.startX = Null
  THEN [s EXCEPT !.startX = Some(smoothedX), !.direction = Some(confirmed),
                 !.status = IF confirmed = "forward" THEN "Running Towards" ELSE "Returning"]
  ELSE IF s.direction # Some(confirmed)
  THEN IF confirmed = "backward"
       THEN [s EXCEPT !.direction = Some(confirmed), !.runCount = s.runCount - 1,
                      !.status = "Returning"]
       ELSE [s EXCEPT !.direction = Some(confirmed), !.status = "Running Towards"]
  ELSE s

\* mutant: a run is counted on every confirmed flip, to forward as well
ShuttleConfirmCountsFlips(s, confirmed, smoothedX) ==
  IF s.startX = Null
  THEN [s EXCEPT !.startX = Some(smoothedX), !.direction = Some(confirmed),
                 !.status = IF confirmed = "forward" THEN "Running Towards" ELSE "Returning"]
  ELSE IF s.direction # Some(confirmed)
  THEN [s EXCEPT !.direction = Some(confirmed), !.runCount = s.runCount + 1,
                 !.status = IF confirmed = "backward" THEN "Returning" ELSE "Running Towards"]
  ELSE s

\* mutant: a confirmed flip changes the direction and leaves the status
ShuttleConfirmStaleStatus(s, confirmed, smoothedX) ==
  IF s.startX = Null
  THEN [s EXCEPT !.startX = Some(smoothedX), !.direction = Some(confirmed),
                 !.status = IF confirmed = "forward" THEN "Running Towards" ELSE "Returning"]
  ELSE IF s.direction # Some(confirmed)
  THEN [s EXCEPT !.direction = Some(confirmed),
                 !.runCount = IF confirmed = "backward" THEN s.runCount + 1 ELSE s.runCount]
  ELSE s

\* the effect of a unanimous 3-entry history on startX/direction/status/runCount
ShuttleConfirm(s, confirmed, smoothedX) ==
  IF s.startX = Null
  THEN [s EXCEPT !.startX = Some(smoothedX), !.direction = Some(confirmed),
                 !.status = IF confirmed = "forward" THEN "Running Towards" ELSE "Returning"]
  ELSE IF s.direction # Some(confirmed)
  THEN IF confirmed = "backward"
       THEN [s EXCEPT !.direction = Some(confirmed), !.runCount = s.runCount + 1,
                      !.status = "Returning"]
       ELSE [s EXCEPT !.direction = Some(confirmed), !.status = "Running Towards"]
  ELSE s

shuttleFrameAnalysis(landmarks, w, h, t, state) ==
  IF landmarks.len = 0 THEN Outcome(state, Null, Null)
  ELSE
    LET currentX == ShuttleCurrentX(landmarks, w)
        hist == PushWindow(state.xHistory, currentX, 5)
        smoothedX == Mean(hist)
        s1 == [state EXCEPT !.xHistory = hist]
        s2 == IF s1.lastX # Null
              THEN LET dirs == ShuttleDirs(s1.dirHistory, smoothedX - s1.lastX[1])
                       sd == [s1 EXCEPT !.dirHistory = dirs]
                   IN  IF Len(dirs) = 3 /\ \A i \in 1..3 : dirs[i] = dirs[1]
                       THEN ShuttleConfirm(sd, dirs[1], smoothedX)
                       ELSE sd
              ELSE s1
        s3 == [s2 EXCEPT !.lastX = Some(smoothedX), !.positions = Append(s2.positions, smoothedX)]
    IN  Outcome(s3, Some([runCount |-> s3.runCount, status |-> s3.status]), Some(smoothedX))

(* ============================= SIT & REACH ============================= *)
\* mutant: the running maximum starts below every reach (-Infinity)
initSitReachStateNegInf ==
  [reachHistory |-> <<>>, maxReachPx |-> 0 - 1000 * Unit, timeOfMax |-> 0, reachData |-> <<>>]

initSitReachState ==
  [reachHistory |-> <<>>, maxReachPx |-> 0, timeOfMax |-> 0, reachData |-> <<>>]

\* lmXY(landmarks[31], ...) and the three reads after it throw on an absent joint
sitReachFrameAnalysis(landmarks, w, h, t, state) ==
  IF landmarks.len = 0 THEN Outcome(state, Null, Null)
  ELSE IF \E i \in {31, 32, 15, 16} : ~Has(landmarks, i) THEN Thrown(state)
  ELSE
    LET footX == (lmX(landmarks, 31, w) + lmX(landmarks, 32, w)) \div 2
        handX == (lmX(landmarks, 15, w) + lmX(landmarks, 16, w)) \div 2
        reachPx == handX - footX
        hist == PushWindow(state.reachHistory, reachPx, 5)
        sm == Mean(hist)
        s1 == [state EXCEPT !.reachHistory = hist]
        s2 == IF sm > s1.maxReachPx THEN [s1 EXCEPT !.maxReachPx = sm, !.timeOfMax = t] ELSE s1
        sample == [time_s |-> ToFixed(t, 1000, 3), reach_px |-> ToFixed(sm, Unit, 2),
                   reach_m |-> ToFixed(sm, Unit * 100, 3)]
    IN  Outcome([s2 EXCEPT !.reachData = Append(s2.reachData, sample)], Null, Some(sm))

(* ============================== SUMMARIES ============================== *)
Max(S) == CHOOSE x \in S : \A y \in S : y <= x
Min(S) == CHOOSE x \in S : \A y \in S : x <= y

Range(s) == {s[i] : i \in 1..Len(s)}

\* reps.reduce((a, r) => a + (r.f ?? 0), 0) for a field f present in every row
SumOf(rows, f) == Sum([i \in 1..Len(rows) |-> rows[i][f]])

\* mutant: a rep is good when its dip lasted 0.2 s, whatever its flag says
summarizePushupsByDuration(reps) ==
  IF Len(reps) = 0
  THEN [count |-> 0, goodReps |-> 0, badReps |-> 0, avgElbowAngle |-> 0, avgRepDurationSec |-> 0]
  ELSE LET goodReps == Cardinality({i \in 1..Len(reps) : reps[i].dip_duration_sec >= 200})
       IN  [count |-> Len(reps), goodReps |-> goodReps, badReps |-> Len(reps) - goodReps,
            avgElbowAngle |-> ToFixed(SumOf(reps, "min_elbow_angle"), 100 * Len(reps), 2),
            avgRepDurationSec |-> ToFixed(SumOf(reps, "dip_duration_sec"), 1000 * Len(reps), 2)]

summarizePushups(reps) ==
  IF Len(reps) = 0
  THEN [count |-> 0, goodReps |-> 0, badReps |-> 0, avgElbowAngle |-> 0, avgRepDurationSec |-> 0]
  ELSE LET goodReps == Cardinality({i \in 1..Len(reps) : reps[i].correct})
       IN  [count |-> Len(reps), goodReps |-> goodReps, badReps |-> Len(reps) - goodReps,
            avgElbowAngle |-> ToFixed(SumOf(reps, "min_elbow_angle"), 100 * Len(reps), 2),
            avgRepDurationSec |-> ToFixed(SumOf(reps, "dip_duration_sec"), 1000 * Len(reps), 2)]

summarizePullups(reps) ==
  IF Len(reps) = 0 THEN [count |-> 0, avgDipDuration |-> 0]
  ELSE [count |-> Len(reps),
        avgDipDuration |-> ToFixed(SumOf(reps, "dip_duration_sec"), 100 * Len(reps), 2)]

summarizeSitups(reps) ==
  IF Len(reps) = 0 THEN [count |-> 0, avgAngleChange |-> 0]
  ELSE [count |-> Len(reps),
        avgAngleChange |-> ToFixed(SumOf(reps, "angle_change"), 100 * Len(reps), 2)]

\* maxHeight * 0.0264: heights are in hundredths of a pixel
summarizeVerticalJump(jumps) ==
  IF Len(jumps) = 0 THEN [count |-> 0, maxHeightCm |-> 0, avgAirTimeSec |-> 0]
  ELSE LET maxHeight == Max({jumps[i].jump_height_px : i \in 1..Len(jumps)})
       IN  [count |-> Len(jumps),
            maxHeightCm |-> ToFixed(maxHeight * 264, 100 * 10000, 2),
            avgAirTimeSec |-> ToFixed(SumOf(jumps, "air_time_s"), 1000 * Len(jumps), 2)]

\* mutant: the shortcut is taken for every session of fewer than 8 frames
summarizeShuttleShortcutWide(state) ==
  IF Len(state.positions) < 8 THEN [runs |-> 0, distanceM |-> 0]
  ELSE [runs |-> state.runCount,
        distanceM |-> ToFixed(Max(Range(state.positions)) - Min(Range(state.positions)),
                              Unit * 100, 2)]

summarizeShuttle(state) ==
  IF Len(state.positions) = 0 THEN [runs |-> 0, distanceM |-> 0]
  ELSE [runs |-> state.runCount,
        distanceM |-> ToFixed(Max(Range(state.positions)) - Min(Range(state.positions)),
                              Unit * 100, 2)]

summarizeSitReach(state) ==
  [maxReachM |-> ToFixed(state.maxReachPx, Unit * 100, 2),
   timeOfMax |-> ToFixed(state.timeOfMax, 1000, 2)]

(* ============================== SESSION ================================ *)
(* One session: an ActivityState is created for the activity key, fed      *)
(* frames through the matching frame-analysis function, and folded by the  *)
(* matching summarizer (WorkoutInterface.tsx and VideoProcessor.tsx        *)
(* dispatch on the activity key the same way).                             *)
Activities == {"pushups", "pullups", "situps", "verticaljump", "shuttlerun", "sitreach"}

initState(key) ==
  CASE key = "pushups" -> initPushupState
    [] key = "pullups" -> initPullupState
    [] key = "situps" -> initSitupState
    [] key = "verticaljump" -> initVerticalJumpState
    [] key = "shuttlerun" -> initShuttleState
    [] key = "sitreach" -> initSitReachState

\* mutant: the vertical-jump summarizer drops the entry of a jump that has
\* not landed from the ledger it was given
summarizeSessionDropping(key, st) ==
  IF key = "verticaljump"
  THEN LET landed == SelectSeq(st.jumpData, LAMBDA j : j.landing_time # Null)
       IN  [state |-> [st EXCEPT !.jumpData = landed], summary |-> summarizeVerticalJump(landed)]
  ELSE [state |-> st,
        summary |-> CASE key = "pushups" -> summarizePushups(st.reps)
                      [] key = "pullups" -> summarizePullups(st.reps)
                      [] key = "situps" -> summarizeSitups(st.reps)
                      [] key = "shuttlerun" -> summarizeShuttle(st)
                      [] key = "sitreach" -> summarizeSitReach(st)]

\* the summarizer call of the session: the record returned and the state
\* after the call (the reducers only read their argument)
summarizeSession(key, st) ==
  [state |-> st,
   summary |-> CASE key = "pushups" -> summarizePushups(st.reps)
                 [] key = "pullups" -> summarizePullups(st.reps)
                 [] key = "situps" -> summarizeSitups(st.reps)
                 [] key = "verticaljump" -> summarizeVerticalJump(st.jumpData)
                 [] key = "shuttlerun" -> summarizeShuttle(st)
                 [] key = "sitreach" -> summarizeSitReach(st)]

VARIABLES
  activity,   \* the activity key of the session
  state,      \* the ActivityState of the session
  nframes,    \* frame-analysis calls made so far
  clock,      \* timestamp of the latest call (Null before the first)
  last,       \* the latest call: operation, value returned, smoothed value, thrown, repeat
  summary,    \* record returned by the latest summarizer call (Null if none)
  fired,      \* completed-event transitions so far
  scen,       \* progress of the session along the scenarios of section 8
  seen,       \* what the smoothed push-up angle has done so far, and over the open dip
  frame,      \* the landmark array of the latest frame-analysis call (Null before it)
  accepted,   \* raw channel samples of the frames the detector smoothed, in arrival order
  heap,       \* two-state harness: the value held by every allocated cell
  objs,       \* two-state harness: the objects returned by the init calls
  live,       \* the live component: refs, render closure, camera, wall clock
  video,      \* the video component: one run of processVideo
  flow        \* the mock recording flow of WorkoutInterface: stage, timers, time

sessionVars == <<activity, state, nframes, clock, last, summary, fired, scen, seen, frame, accepted>>

vars == <<activity, state, nframes, clock, last, summary, fired, scen, seen, frame, accepted,
          heap, objs, live, video, flow>>

\* repeat: the call is a summarizer call that directly follows another one
NoCall == [op |-> "none", ret |-> Null, sm |-> Null, thrown |-> FALSE, repeat |-> FALSE]

Init ==
  /\ activity \in Activities
  /\ state = initState(activity)
  /\ nframes = 0
  /\ clock = Null
  /\ last = NoCall
  /\ summary = Null
  /\ fired = 0
  /\ scen = [c2 |-> 0, c3raw |-> 0, c3sm |-> 0]
  /\ seen = [below76 |-> FALSE, outOfBand |-> FALSE, dipMin |-> Null, dipStart |-> Null, ext |-> Null,
             base |-> Null, apex |-> Null, takeoff |-> Null]
  /\ frame = Null
  /\ accepted = <<>>
  /\ heap = <<>>
  /\ objs = <<>>
  /\ live = Null
  /\ video = Null
  /\ flow = Null

NextTimes(first, deltas) == IF clock = Null THEN first ELSE {clock[1] + d : d \in deltas}

(* --- scenario trackers: 0 at the start, k after the first k steps of the  *)
(* --- scenario were fed and nothing else, -1 once the session left it      *)
C2Angles == <<170, 60, 60, 170>>
C2Times == <<0, 300, 500, 800>>

C2Next(k, landmarks, t) ==
  IF k >= 0 /\ k < 4 /\ landmarks.len > 0
     /\ ElbowAngle(landmarks) = Some(C2Angles[k + 1] * Unit) /\ t = C2Times[k + 1]
  THEN k + 1 ELSE 0 - 1

\* a run of frames at 400 px, then 340 px at t = 1.0, then 398 px at t = 1.6
C3Next(k, v, t) ==
  IF k \in {0, 1} /\ v = Some(400 * Unit) THEN 1
  ELSE IF k = 1 /\ v = Some(340 * Unit) /\ t = 1000 THEN 2
  ELSE IF k = 2 /\ v = Some(398 * Unit) /\ t = 1600 THEN 3
  ELSE 0 - 1

\* the raw mid-hip height of an accepted frame
MidHipY(landmarks, h) ==
  IF landmarks.len > 0 /\ Has(landmarks, 23) /\ Has(landmarks, 24)
  THEN Some((lmY(landmarks, 23, h) + lmY(landmarks, 24, h)) \div 2) ELSE Null

\* the joints each frame-analysis function reads to build its channel
RequiredJoints(key) ==
  CASE key \in {"pushups", "situps"} -> {11, 12, 13, 14, 15, 16}
    [] key = "pullups" -> {0, 11, 12, 13, 14, 15, 16}
    [] key = "verticaljump" -> {23, 24}
    [] key = "shuttlerun" -> {27, 28, 31, 32}
    [] key = "sitreach" -> {31, 32, 15, 16}

\* handX - footX of sitReachFrameAnalysis
ReachPx(landmarks, w) ==
  (lmX(landmarks, 15, w) + lmX(landmarks, 16, w)) \div 2
    - (lmX(landmarks, 31, w) + lmX(landmarks, 32, w)) \div 2

\* the raw sample a frame-analysis function pushes into its smoothing buffer
RawSample(key, landmarks, w, h) ==
  CASE key \in {"pushups", "pullups", "situps"} -> ElbowAngle(landmarks)[1]
    [] key = "verticaljump" -> MidHipY(landmarks, h)[1]
    [] key = "shuttlerun" -> ShuttleCurrentX(landmarks, w)
    [] key = "sitreach" -> ReachPx(landmarks, w)

\* what every frame-analysis call does to the session bookkeeping
Fed(landmarks, wh, r, t, completed) ==
  /\ state' = r.state
  /\ last' = [NoCall EXCEPT !.op = "frame", !.ret = r.ret, !.sm = r.sm, !.thrown = r.thrown]
  /\ clock' = Some(t)
  /\ nframes' = nframes + 1
  /\ fired' = IF completed THEN fired + 1 ELSE fired
  /\ frame' = Some(landmarks)
  /\ accepted' = IF r.sm # Null
                 THEN Append(accepted, RawSample(activity, landmarks, wh[1], wh[2]))
                 ELSE accepted
  /\ UNCHANGED <<activity, summary, heap, objs, live, video, flow>>

\* one pushupFrameAnalysis call of the session, with what it adds to seen:
\* dipMin is the smallest smoothed angle of the frames of the open dip (from
\* the frame that entered down), dipStart the timestamp of that frame
PushupFeed(landmarks, wh, t) ==
  LET r == pushupFrameAnalysis(landmarks, wh[1], wh[2], t, state) IN
  /\ Fed(landmarks, wh, r, t, state.state = "down" /\ r.state.state = "up")
  /\ scen' = [scen EXCEPT !.c2 = C2Next(scen.c2, landmarks, t)]
  /\ seen' = IF r.sm = Null THEN seen
             ELSE [below76 |-> seen.below76 \/ r.sm[1] < 76 * Unit,
                   outOfBand |-> seen.outOfBand \/ r.sm[1] < 90 * Unit \/ r.sm[1] > 100 * Unit,
                   dipMin |-> IF r.state.state # "down" THEN Null
                              ELSE IF state.state = "up" \/ r.sm[1] < seen.dipMin[1]
                              THEN r.sm ELSE seen.dipMin,
                   dipStart |-> IF r.state.state # "down" THEN Null
                                ELSE IF state.state = "up" THEN Some(t) ELSE seen.dipStart,
                   ext |-> seen.ext, base |-> seen.base, apex |-> seen.apex,
                   takeoff |-> seen.takeoff]

PushupFrame ==
  /\ activity = "pushups" /\ summary = Null /\ nframes < MaxPushupFrames
  /\ \E landmarks \in PushupFrames, wh \in FrameSizes, t \in NextTimes({0}, PushupDeltas) :
       PushupFeed(landmarks, wh, t)

PullupFrame ==
  /\ activity = "pullups" /\ summary = Null /\ nframes < MaxPullupFrames
  /\ \E landmarks \in PullupFrames, wh \in FrameSizes, t \in NextTimes({0}, PullupDeltas) :
       LET r == pullupFrameAnalysis(landmarks, wh[1], wh[2], t, state) IN
       Fed(landmarks, wh, r, t, state.state = "up" /\ r.state.state = "waiting")
  /\ UNCHANGED <<scen, seen, flow>>

\* seen.ext is the extreme smoothed value of the current sit-up phase: the
\* highest since the phase became up, the lowest since it became down
SitupFrame ==
  /\ activity = "situps" /\ summary = Null /\ nframes < MaxSitupFrames
  /\ \E landmarks \in SitupFrames, wh \in FrameSizes, t \in NextTimes({0}, SitupDeltas) :
       LET r == situpFrameAnalysis(landmarks, wh[1], wh[2], t, state) IN
       /\ Fed(landmarks, wh, r, t, state.state = "down" /\ r.state.state = "up")
       /\ seen' = IF r.sm = Null THEN seen
                  ELSE [seen EXCEPT !.ext =
                          IF seen.ext = Null \/ r.state.state # state.state
                             \/ (state.state = "up" /\ r.sm[1] > seen.ext[1])
                             \/ (state.state = "down" /\ r.sm[1] < seen.ext[1])
                          THEN r.sm ELSE seen.ext]
  /\ UNCHANGED scen

\* seen.base is the first smoothed hip height of the session, seen.apex the
\* lowest smoothed hip y of the frames from the latest takeoff on, and
\* seen.takeoff the timestamp of that takeoff
VerticalJumpFrame ==
  /\ activity = "verticaljump" /\ summary = Null /\ nframes < MaxJumpFrames
  /\ \E landmarks \in JumpFrames, wh \in FrameSizes, t \in NextTimes(JumpFirstTimes, JumpDeltas) :
       LET r == verticalJumpFrameAnalysis(landmarks, wh[1], wh[2], t, state) IN
       /\ Fed(landmarks, wh, r, t, state.inAir /\ ~r.state.inAir)
       /\ scen' = [scen EXCEPT !.c3raw = C3Next(scen.c3raw, MidHipY(landmarks, wh[2]), t),
                               !.c3sm = C3Next(scen.c3sm, r.sm, t)]
       /\ seen' = IF r.sm = Null THEN seen
                  ELSE [seen EXCEPT
                          !.base = IF seen.base = Null THEN r.sm ELSE @,
                          !.apex = IF ~state.inAir /\ r.state.inAir THEN r.sm
                                   ELSE IF state.inAir /\ r.sm[1] < @[1] THEN r.sm ELSE @,
                          !.takeoff = IF ~state.inAir /\ r.state.inAir THEN Some(t) ELSE @]

ShuttleFrame ==
  /\ activity = "shuttlerun" /\ summary = Null /\ nframes < MaxShuttleFrames
  /\ \E landmarks \in ShuttleFrames, wh \in FrameSizes, t \in NextTimes({0}, ShuttleDeltas) :
       LET r == shuttleFrameAnalysis(landmarks, wh[1], wh[2], t, state) IN
       Fed(landmarks, wh, r, t, state.direction = Some("forward") /\ r.state.direction = Some("backward"))
  /\ UNCHANGED <<scen, seen, flow>>

SitReachFrame ==
  /\ activity = "sitreach" /\ summary = Null /\ nframes < MaxReachFrames
  /\ \E landmarks \in ReachFrames, wh \in FrameSizes, t \in NextTimes({0}, ReachDeltas) :
       LET r == sitReachFrameAnalysis(landmarks, wh[1], wh[2], t, state) IN
       Fed(landmarks, wh, r, t, FALSE)
  /\ UNCHANGED <<scen, seen, flow>>

\* session end, and any later call of the summarizer on the same state
Summarize ==
  /\ LET r == summarizeSession(activity, state) IN
       /\ summary' = Some(r.summary)
       /\ state' = r.state
  /\ last' = [NoCall EXCEPT !.op = "summarize", !.repeat = (last.op = "summarize")]
  /\ UNCHANGED <<activity, nframes, clock, fired, scen, seen, frame, accepted, heap, objs, live, video, flow>>

Next ==
  \/ PushupFrame
  \/ PullupFrame
  \/ SitupFrame
  \/ VerticalJumpFrame
  \/ ShuttleFrame
  \/ SitReachFrame
  \/ Summarize

Spec == Init /\ [][Next]_vars

(* ------------- sessions fed with timestamps in any order --------------- *)
(* The frame-analysis functions take the timestamp as a plain argument;    *)
(* here a caller passes any of a few timestamps on every call, whatever    *)
(* the timestamp of the call before.                                       *)

\* the switch on the activity key around the frame-analysis call
frameAnalysis(key, landmarks, w, h, t, st) ==
  CASE key = "pushups" -> pushupFrameAnalysis(landmarks, w, h, t, st)
    [] key = "pullups" -> pullupFrameAnalysis(landmarks, w, h, t, st)
    [] key = "situps" -> situpFrameAnalysis(landmarks, w, h, t, st)
    [] key = "verticaljump" -> verticalJumpFrameAnalysis(landmarks, w, h, t, st)
    [] key = "shuttlerun" -> shuttleFrameAnalysis(landmarks, w, h, t, st)
    [] key = "sitreach" -> sitReachFrameAnalysis(landmarks, w, h, t, st)

FramesOf(key) ==
  CASE key = "pushups" -> PushupFrames
    [] key = "pullups" -> PullupFrames
    [] key = "situps" -> SitupFrames
    [] key = "verticaljump" -> JumpFrames
    [] key = "shuttlerun" -> ShuttleFrames
    [] key = "sitreach" -> ReachFrames

\* the call took the completed-event transition of its detector
Completed(key, old, new) ==
  CASE key \in {"pushups", "situps"} -> old.state = "down" /\ new.state = "up"
    [] key = "pullups" -> old.state = "up" /\ new.state = "waiting"
    [] key = "verticaljump" -> old.inAir /\ ~new.inAir
    [] key = "shuttlerun" -> old.direction = Some("forward") /\ new.direction = Some("backward")
    [] key = "sitreach" -> FALSE

AnyTimes == {0, 300, 600}

FrameAnyTime ==
  /\ summary = Null /\ nframes < MaxUnorderedFrames
  /\ \E landmarks \in FramesOf(activity), wh \in FrameSizes, t \in AnyTimes :
       LET r == frameAnalysis(activity, landmarks, wh[1], wh[2], t, state) IN
       Fed(landmarks, wh, r, t, Completed(activity, state, r.state))
  /\ UNCHANGED <<scen, seen, flow>>

UnorderedNext ==
  \/ FrameAnyTime
  \/ Summarize

UnorderedSpec == Init /\ [][UnorderedNext]_vars

(* ------------------- push-up sessions with long dips ------------------- *)
(* A push-up session of more frames over fewer inputs, so that a dip can   *)
(* last several frames and deepen after the frame that opened it.          *)
DipInit == Init /\ activity = "pushups"

DipFrame ==
  /\ summary = Null /\ nframes < MaxDipFrames
  /\ \E landmarks \in DipFrames, wh \in FrameSizes, t \in NextTimes({0}, DipDeltas) :
       PushupFeed(landmarks, wh, t)

DipNext ==
  \/ DipFrame
  \/ Summarize

DipSpec == DipInit /\ [][DipNext]_vars

(* ---------------------- summarizePushups on any ledger ----------------- *)
(* The summarizer is a function of the ledger alone: it is applied to      *)
(* every RepRow sequence of up to MaxLedgerLen rows, whether or not a      *)
(* session can produce it.                                                 *)
RepRows ==
  { [count |-> 0, down_time |-> 0, up_time |-> d, dip_duration_sec |-> d,
     min_elbow_angle |-> a, correct |-> c] :
      d \in {100, 300}, a \in {6000, 9000}, c \in BOOLEAN }

PushupLedgers ==
  UNION { { [i \in 1..n |-> [rows[i] EXCEPT !.count = i]] : rows \in [1..n -> RepRows] } :
          n \in 0..MaxLedgerLen }

LedgerInit ==
  /\ activity = "pushups"
  /\ \E reps \in PushupLedgers : state = [initPushupState EXCEPT !.reps = reps]
  /\ nframes = 0
  /\ clock = Null
  /\ last = NoCall
  /\ summary = Null
  /\ fired = 0
  /\ scen = [c2 |-> 0, c3raw |-> 0, c3sm |-> 0]
  /\ seen = [below76 |-> FALSE, outOfBand |-> FALSE, dipMin |-> Null, dipStart |-> Null, ext |-> Null,
             base |-> Null, apex |-> Null, takeoff |-> Null]
  /\ frame = Null
  /\ accepted = <<>>
  /\ heap = <<>>
  /\ objs = <<>>
  /\ live = Null
  /\ video = Null
  /\ flow = Null

LedgerNext == Summarize

LedgerSpec == LedgerInit /\ [][LedgerNext]_vars

(* ---------------- two states from two separate init calls -------------- *)
(* Objects are modelled with identity.  An init call evaluates an object   *)
(* literal: it allocates one cell per field (the record itself and each    *)
(* [] literal are fresh allocations) and returns the addresses.  A         *)
(* frame-analysis call reads and writes the cells of the object it is      *)
(* given and no others.                                                    *)

\* mutant: every init call hands out the cells of the first allocation, as
\* if the arrays and fields came from one module-level default object
NewObjectShared(n, key) ==
  [key |-> key, calls |-> 0, cells |-> [f \in DOMAIN initState(key) |-> <<1, f>>]]

\* the object returned by the n-th init call
NewObject(n, key) ==
  [key |-> key, calls |-> 0, cells |-> [f \in DOMAIN initState(key) |-> <<n, f>>]]

\* the ActivityState value reachable from an object
Deref(h, obj) == [f \in DOMAIN obj.cells |-> h[obj.cells[f]]]

\* the heap after the fields of obj were assigned from st
Store(h, obj, st) ==
  LET written == {obj.cells[f] : f \in DOMAIN obj.cells} IN
  [a \in DOMAIN h \cup written |->
     IF a \in written THEN st[CHOOSE f \in DOMAIN obj.cells : obj.cells[f] = a] ELSE h[a]]

InitCall ==
  /\ Len(objs) < 2
  /\ LET obj == NewObject(Len(objs) + 1, activity) IN
       /\ objs' = Append(objs, obj)
       /\ heap' = Store(heap, obj, initState(activity))
  /\ UNCHANGED <<sessionVars, live, video, flow>>

FrameOn(i) ==
  /\ nframes < MaxTwoFrames
  /\ \E landmarks \in FramesOf(activity), wh \in FrameSizes :
       LET r == frameAnalysis(objs[i].key, landmarks, wh[1], wh[2], 300 * nframes,
                              Deref(heap, objs[i]))
       IN  heap' = Store(heap, objs[i], r.state)
  /\ objs' = [objs EXCEPT ![i].calls = @ + 1]
  /\ nframes' = nframes + 1
  /\ UNCHANGED <<activity, state, clock, last, summary, fired, scen, seen, frame, accepted, live, video, flow>>

FrameOnEither == \E i \in 1..Len(objs) : FrameOn(i)

TwoNext ==
  \/ InitCall
  \/ FrameOnEither

TwoSpec == Init /\ [][TwoNext]_vars

(* ------------------- live session (LiveWorkoutProcessor) --------------- *)
(* The component after its first render and effects: the pose model and    *)
(* the ActivityState exist (initPose), the camera is being started         *)
(* (startCamera awaits camera.start()).  live holds                        *)
(*   gen           how many ActivityStates were assigned to stateRef so    *)
(*                 far; stateRef.current is the gen-th one, state its value*)
(*   sumGen        which of them the first summarizer call read (0: none)  *)
(*   startTime     startTimeRef.current, wall-clock ms                     *)
(*   now           the wall clock; every event is LiveTick after the last  *)
(*   camera        "starting", "on", "stopped" or "failed"                 *)
(*   text          feedbackMessage.text as last set                        *)
(*   dep           feedbackMessage.text of the render whose onPoseResults  *)
(*                 the initPose effect last ran with                       *)
(*   inflight      Null, or Some(text captured by the onPoseResults that   *)
(*                 will receive the result of the frame being processed)   *)
(*   lastRepCount  lastRepCountRef.current                                 *)
(*   sent, stops, finishes   frames sent, handleStop runs, onFinish calls  *)
LiveTick == 100

LiveInit ==
  /\ activity \in Activities
  /\ state = initState(activity)
  /\ nframes = 0
  /\ clock = Null
  /\ last = NoCall
  /\ summary = Null
  /\ fired = 0
  /\ scen = [c2 |-> 0, c3raw |-> 0, c3sm |-> 0]
  /\ seen = [below76 |-> FALSE, outOfBand |-> FALSE, dipMin |-> Null, dipStart |-> Null, ext |-> Null,
             base |-> Null, apex |-> Null, takeoff |-> Null]
  /\ frame = Null
  /\ accepted = <<>>
  /\ heap = <<>>
  /\ objs = <<>>
  /\ live = [gen |-> 1, sumGen |-> 0, startTime |-> 0, now |-> 0, camera |-> "starting",
             text |-> "Get ready...", dep |-> "Get ready...", inflight |-> Null,
             lastRepCount |-> 0, sent |-> 0, stops |-> 0, finishes |-> 0]
  /\ video = Null
  /\ flow = Null

\* getRepFeedback: the texts Math.random() can pick for a new rep
RepFeedbackTexts(key, rep) ==
  CASE key = "pushups" ->
         IF rep.correct
         THEN {"Good rep!", "Perfect form!", "Keep it up!", "Excellent!", "Nice push-up!"}
         ELSE {"Go lower!", "Keep your back straight!", "Full range of motion!", "Deeper!"}
    [] key = "pullups" -> {"Great pull-up!"}
    [] key = "situps" -> {"Good sit-up!"}
    [] key = "verticaljump" ->
         IF rep.jump_height_px > 50 * 100 THEN {"Nice jump!"} ELSE {"Jump higher!"}

\* the continuation of await camera.start(): the session clock is restarted
CameraStarted ==
  /\ live.camera = "starting"
  /\ live' = [live EXCEPT !.now = @ + LiveTick, !.camera = "on",
                          !.startTime = live.now + LiveTick]
  /\ UNCHANGED <<sessionVars, heap, objs, video, flow>>

\* camera.start() rejected before any frame: the catch block sets the feedback
CameraDenied ==
  /\ live.camera = "starting" /\ live.sent = 0
  /\ live' = [live EXCEPT !.now = @ + LiveTick, !.camera = "failed",
                          !.text = "Camera access denied"]
  /\ UNCHANGED <<sessionVars, heap, objs, video, flow>>

\* onFrame: the running camera hands a video frame to the pose model and
\* waits for it; the result goes to the onPoseResults registered on that model
SendFrame ==
  /\ live.camera \in {"starting", "on"} /\ live.inflight = Null
  /\ live.sent < MaxLiveSends
  /\ live' = [live EXCEPT !.now = @ + LiveTick, !.inflight = Some(live.dep),
                          !.sent = @ + 1]
  /\ UNCHANGED <<sessionVars, heap, objs, video, flow>>

\* onPoseResults for the frame in flight.  Without detected landmarks nothing
\* is analysed.  Otherwise t is the wall clock minus startTimeRef, the
\* frame-analysis function of the activity runs on stateRef.current, a new
\* rep with a higher count sets the feedback text, and for the shuttle run
\* the status replaces the feedback text when it differs from the text this
\* callback was created with.  A throw inside the analysis leaves the handler.
PoseResult ==
  /\ live.inflight # Null
  /\ \E detected \in BOOLEAN, landmarks \in FramesOf(activity), wh \in FrameSizes :
       LET now == live.now + LiveTick
           t == now - live.startTime
           r == frameAnalysis(activity, landmarks, wh[1], wh[2], t, state)
           newRep == IF activity \in {"shuttlerun", "sitreach"} THEN Null ELSE r.ret
           currentCount == IF newRep # Null /\ "count" \in DOMAIN newRep[1]
                           THEN newRep[1].count ELSE live.lastRepCount + 1
           announce == ~r.thrown /\ newRep # Null /\ currentCount > live.lastRepCount
       IN  IF ~detected
           THEN /\ live' = [live EXCEPT !.now = now, !.inflight = Null]
                /\ UNCHANGED sessionVars
           ELSE /\ state' = r.state
                /\ last' = [NoCall EXCEPT !.op = "frame", !.ret = r.ret, !.sm = r.sm,
                                          !.thrown = r.thrown]
                /\ clock' = Some(t)
                /\ nframes' = nframes + 1
                /\ fired' = IF Completed(activity, state, r.state) THEN fired + 1 ELSE fired
                /\ frame' = Some(landmarks)
                /\ accepted' = IF r.sm # Null
                               THEN Append(accepted, RawSample(activity, landmarks, wh[1], wh[2]))
                               ELSE accepted
                /\ \E text \in (IF announce THEN RepFeedbackTexts(activity, newRep[1])
                                ELSE {live.text}) :
                     live' = [live EXCEPT
                                !.now = now, !.inflight = Null,
                                !.lastRepCount = IF announce THEN currentCount ELSE @,
                                !.text = IF /\ ~r.thrown /\ activity = "shuttlerun"
                                            /\ r.state.status # live.inflight[1]
                                         THEN r.state.status ELSE text]
                /\ UNCHANGED <<activity, summary, scen, seen, flow>>
  /\ UNCHANGED <<heap, objs, video, flow>>

\* A render with a new feedbackMessage.text makes a new onPoseResults, and the
\* initPose effect depends on it: its cleanup stops the camera (when
\* cameraRef is set) and closes the pose model, then initPose builds a new
\* model and assigns a fresh ActivityState to stateRef.
Rerender ==
  /\ live.text # live.dep
  /\ state' = initState(activity)
  /\ accepted' = <<>>
  /\ live' = [live EXCEPT !.now = @ + LiveTick, !.gen = @ + 1, !.dep = live.text,
                          !.camera = IF @ = "on" THEN "stopped" ELSE @]
  /\ UNCHANGED <<activity, nframes, clock, last, summary, fired, scen, seen, frame, heap, objs, video, flow>>

\* the Stop Workout button: stop the camera (when cameraRef is set), run the
\* summarizer of the activity on stateRef.current, call onFinish
HandleStop ==
  /\ live.stops < MaxStops
  /\ LET r == summarizeSession(activity, state) IN
       /\ summary' = Some(r.summary)
       /\ state' = r.state
  /\ last' = [NoCall EXCEPT !.op = "summarize", !.repeat = (last.op = "summarize")]
  /\ live' = [live EXCEPT !.now = @ + LiveTick,
                          !.camera = IF @ = "on" THEN "stopped" ELSE @,
                          !.sumGen = IF live.stops = 0 THEN live.gen ELSE @,
                          !.stops = @ + 1, !.finishes = @ + 1]
  /\ UNCHANGED <<activity, nframes, clock, fired, scen, seen, frame, accepted, heap, objs, video, flow>>

LiveNext ==
  \/ CameraStarted
  \/ CameraDenied
  \/ SendFrame
  \/ PoseResult
  \/ Rerender
  \/ HandleStop

LiveSpec == LiveInit /\ [][LiveNext]_vars

(* ---------------------- video mode (VideoProcessor) -------------------- *)
(* One run of processVideo, in the two versions of the component:          *)
(*   "stepping"  VideoProcessor.tsx: draw the current frame, await         *)
(*               pose.send, analyse, currentTime += 1/30;                  *)
(*   "seeking"   the other version: currentTime = frameNum / 30, wait for  *)
(*               the seeked event, draw, await pose.send, analyse.         *)
(* video holds                                                             *)
(*   duration   the length of the video in frames of 1/30 s                *)
(*   pc         "idle", "loop", "seeking", "sending", "finished" or        *)
(*              "crashed" (the promise of processVideo rejected)           *)
(*   pos        videoEl.currentTime, in frames of 1/30 s                   *)
(*   frameNum   the loop counter of the seeking version                    *)
(*   inflight   frames handed to pose.send whose await has not resumed     *)
(*   admitted, handled   frames taken up by the loop, frames it is through *)
(*   times      the timestamps passed to the frame-analysis function       *)
(*   processing isProcessing (the button is disabled while it is true)     *)
VideoVariants == {"stepping", "seeking"}

\* k / 30 seconds, in milliseconds
FrameTime(k) == RoundDiv(1000 * k, 30)

VideoInit ==
  /\ activity \in Activities
  /\ state = initState(activity)
  /\ nframes = 0
  /\ clock = Null
  /\ last = NoCall
  /\ summary = Null
  /\ fired = 0
  /\ scen = [c2 |-> 0, c3raw |-> 0, c3sm |-> 0]
  /\ seen = [below76 |-> FALSE, outOfBand |-> FALSE, dipMin |-> Null, dipStart |-> Null, ext |-> Null,
             base |-> Null, apex |-> Null, takeoff |-> Null]
  /\ frame = Null
  /\ accepted = <<>>
  /\ heap = <<>>
  /\ objs = <<>>
  /\ live = Null
  /\ flow = Null
  /\ \E variant \in VideoVariants, duration \in 1..MaxVideoFrames :
       video = [variant |-> variant, duration |-> duration, pc |-> "idle", pos |-> 0,
                frameNum |-> 0, inflight |-> 0, admitted |-> 0, handled |-> 0,
                times |-> <<>>, processing |-> FALSE]

\* mutant: pose.send is not awaited, the loop goes on while the frame is out
AfterSendNotAwaited == "loop"

\* where processVideo stands after calling pose.send: suspended on the await
AfterSend == "sending"

\* the button: processVideo starts, with a fresh state (stepping version) or
\* the state made at mount (seeking version, which also rewinds the video)
ProcessVideo ==
  /\ video.pc = "idle" /\ ~video.processing
  /\ state' = initState(activity)
  /\ video' = [video EXCEPT !.pc = "loop", !.processing = TRUE, !.pos = 0, !.frameNum = 0]
  /\ UNCHANGED <<activity, nframes, clock, last, summary, fired, scen, seen, frame, accepted,
                 heap, objs, live, flow>>

\* stepping version, loop test passed: draw the frame, call pose.send
VideoSend ==
  /\ video.variant = "stepping" /\ video.pc = "loop" /\ video.pos < video.duration
  /\ video' = [video EXCEPT !.pc = AfterSend, !.inflight = @ + 1, !.admitted = @ + 1]
  /\ UNCHANGED <<sessionVars, heap, objs, live, flow>>

\* seeking version, loop test passed: set currentTime and wait for seeked
VideoSeek ==
  /\ video.variant = "seeking" /\ video.pc = "loop"
  /\ video.frameNum < video.duration /\ video.processing
  /\ video' = [video EXCEPT !.pc = "seeking", !.pos = video.frameNum, !.admitted = @ + 1]
  /\ UNCHANGED <<sessionVars, heap, objs, live, flow>>

\* onSeeked: draw the frame, call pose.send
VideoSeeked ==
  /\ video.pc = "seeking"
  /\ video' = [video EXCEPT !.pc = AfterSend, !.inflight = @ + 1]
  /\ UNCHANGED <<sessionVars, heap, objs, live, flow>>

\* pose.send resolved: with landmarks the frame is analysed at t = currentTime.
\* A throw ends processVideo in the stepping version and is caught and logged
\* in the seeking version.  Then the video is moved on by one frame.
VideoPoseDone ==
  /\ video.inflight > 0
  /\ \E detected \in BOOLEAN, landmarks \in FramesOf(activity), wh \in FrameSizes :
       LET t == FrameTime(video.pos)
           r == frameAnalysis(activity, landmarks, wh[1], wh[2], t, state)
           crash == detected /\ r.thrown /\ video.variant = "stepping"
           moved == [video EXCEPT !.inflight = @ - 1, !.handled = @ + 1,
                                  !.pc = IF crash THEN "crashed" ELSE "loop",
                                  !.pos = IF video.variant = "stepping" /\ ~crash
                                          THEN @ + 1 ELSE @,
                                  !.frameNum = IF video.variant = "seeking" THEN @ + 1 ELSE @]
       IN  IF ~detected
           THEN /\ video' = moved
                /\ UNCHANGED sessionVars
           ELSE /\ state' = r.state
                /\ last' = [NoCall EXCEPT !.op = "frame", !.ret = r.ret, !.sm = r.sm,
                                          !.thrown = r.thrown]
                /\ clock' = Some(t)
                /\ nframes' = nframes + 1
                /\ fired' = IF Completed(activity, state, r.state) THEN fired + 1 ELSE fired
                /\ frame' = Some(landmarks)
                /\ accepted' = IF r.sm # Null
                               THEN Append(accepted, RawSample(activity, landmarks, wh[1], wh[2]))
                               ELSE accepted
                /\ video' = [moved EXCEPT !.times = Append(@, t)]
                /\ UNCHANGED <<activity, summary, scen, seen, flow>>
  /\ UNCHANGED <<heap, objs, live, flow>>

\* the loop test failed: summarize, publish the result, enable the button
VideoFinish ==
  /\ video.pc = "loop"
  /\ IF video.variant = "stepping" THEN video.pos >= video.duration
     ELSE video.frameNum >= video.duration \/ ~video.processing
  /\ LET r == summarizeSession(activity, state) IN
       /\ summary' = Some(r.summary)
       /\ state' = r.state
  /\ last' = [NoCall EXCEPT !.op = "summarize", !.repeat = (last.op = "summarize")]
  /\ video' = [video EXCEPT !.pc = "finished", !.processing = FALSE]
  /\ UNCHANGED <<activity, nframes, clock, fired, scen, seen, frame, accepted, heap, objs, live, flow>>

VideoNext ==
  \/ ProcessVideo
  \/ VideoSend
  \/ VideoSeek
  \/ VideoSeeked
  \/ VideoPoseDone
  \/ VideoFinish

VideoSpec == VideoInit /\ [][VideoNext]_vars

(* ---------------- mock recording flow (WorkoutInterface) --------------- *)
(* The component keeps stage, isRecording and recordingTime; Start         *)
(* Recording creates a 1-second interval and a 30-second timeout that      *)
(* clears that interval, and every move to processing creates a 3-second   *)
(* timeout.  Time is in whole seconds; a timeout fires once it is due and  *)
(* time only advances when no timeout is due.                              *)
(* flow holds                                                              *)
(*   stage          selection, recording, processing or results            *)
(*   isRecording    the flag of the same name                              *)
(*   recordingTime  the counter of the same name                           *)
(*   now            seconds since mount                                    *)
(*   autoStops      due times of the pending 30-second timeouts; the       *)
(*                  interval created with each is live until it fires      *)
(*   toResults      due times of the pending 3-second timeouts             *)
(*   halted         the latest Start Recording press was followed by a     *)
(*                  manual stop or a Cancel                                *)
(*   by             what the latest step was: user, timer or tick          *)
(*   presses        button presses so far                                  *)
AutoStopDelay == 30
ProcessingDelay == 3

FlowInit ==
  /\ activity = "pushups"
  /\ state = initState(activity)
  /\ nframes = 0
  /\ clock = Null
  /\ last = NoCall
  /\ summary = Null
  /\ fired = 0
  /\ scen = [c2 |-> 0, c3raw |-> 0, c3sm |-> 0]
  /\ seen = [below76 |-> FALSE, outOfBand |-> FALSE, dipMin |-> Null, dipStart |-> Null, ext |-> Null,
             base |-> Null, apex |-> Null, takeoff |-> Null]
  /\ frame = Null
  /\ accepted = <<>>
  /\ heap = <<>>
  /\ objs = <<>>
  /\ live = Null
  /\ video = Null
  /\ flow = [stage |-> "selection", isRecording |-> FALSE, recordingTime |-> 0, now |-> 0,
             autoStops |-> <<>>, toResults |-> <<>>, halted |-> FALSE, by |-> "none",
             presses |-> 0]

\* a sequence without its i-th element
Without1(seq, i) == SubSeq(seq, 1, i - 1) \o SubSeq(seq, i + 1, Len(seq))

Pressed(f) == [f EXCEPT !.by = "user", !.presses = @ + 1]

\* Record Video: onClick={() => setStage('recording')}
RecordVideo ==
  /\ flow.stage = "selection" /\ flow.presses < MaxUserActions
  /\ flow' = [Pressed(flow) EXCEPT !.stage = "recording"]
  /\ UNCHANGED <<sessionVars, heap, objs, live, video>>

\* Upload Video: straight to processing, results 3 s later
UploadVideo ==
  /\ flow.stage = "selection" /\ flow.presses < MaxUserActions
  /\ flow' = [Pressed(flow) EXCEPT !.stage = "processing",
                                   !.toResults = Append(@, flow.now + ProcessingDelay)]
  /\ UNCHANGED <<sessionVars, heap, objs, live, video>>

\* the Start / Stop Recording button
handleRecordingToggle ==
  /\ flow.stage = "recording" /\ flow.presses < MaxUserActions
  /\ flow' = IF ~flow.isRecording
             THEN [Pressed(flow) EXCEPT !.isRecording = TRUE, !.halted = FALSE,
                                        !.autoStops = Append(@, flow.now + AutoStopDelay)]
             ELSE [Pressed(flow) EXCEPT !.isRecording = FALSE, !.halted = TRUE,
                                        !.stage = "processing",
                                        !.toResults = Append(@, flow.now + ProcessingDelay)]
  /\ UNCHANGED <<sessionVars, heap, objs, live, video>>

\* Cancel: onClick={() => setStage('selection')}, isRecording is left as it is
CancelRecording ==
  /\ flow.stage = "recording" /\ flow.presses < MaxUserActions
  /\ flow' = [Pressed(flow) EXCEPT !.stage = "selection",
                                   !.halted = (@ \/ flow.isRecording)]
  /\ UNCHANGED <<sessionVars, heap, objs, live, video>>

\* Redo Workout: onClick={() => setStage('selection')}
RedoWorkout ==
  /\ flow.stage = "results" /\ flow.presses < MaxUserActions
  /\ flow' = [Pressed(flow) EXCEPT !.stage = "selection"]
  /\ UNCHANGED <<sessionVars, heap, objs, live, video>>

\* the 30-second timeout of a Start press: it clears its interval, ends the
\* recording, moves to processing and schedules the move to results
AutoStop ==
  /\ \E i \in 1..Len(flow.autoStops) :
       /\ flow.autoStops[i] <= flow.now
       /\ flow' = [flow EXCEPT !.by = "timer", !.autoStops = Without1(@, i),
                               !.isRecording = FALSE, !.stage = "processing",
                               !.toResults = Append(@, flow.now + ProcessingDelay)]
  /\ UNCHANGED <<sessionVars, heap, objs, live, video>>

\* a 3-second timeout: setStage('results')
ShowResults ==
  /\ \E i \in 1..Len(flow.toResults) :
       /\ flow.toResults[i] <= flow.now
       /\ flow' = [flow EXCEPT !.by = "timer", !.toResults = Without1(@, i),
                               !.stage = "results"]
  /\ UNCHANGED <<sessionVars, heap, objs, live, video>>

\* one second passes; every live interval runs setRecordingTime(prev => prev + 1)
FlowTick ==
  /\ flow.now < MaxFlowTime
  /\ \A i \in 1..Len(flow.autoStops) : flow.autoStops[i] > flow.now
  /\ \A i \in 1..Len(flow.toResults) : flow.toResults[i] > flow.now
  /\ flow' = [flow EXCEPT !.by = "tick", !.now = @ + 1,
                          !.recordingTime = @ + Len(flow.autoStops)]
  /\ UNCHANGED <<sessionVars, heap, objs, live, video>>

FlowNext ==
  \/ RecordVideo
  \/ UploadVideo
  \/ handleRecordingToggle
  \/ CancelRecording
  \/ RedoWorkout
  \/ AutoStop
  \/ ShowResults
  \/ FlowTick

FlowSpec == FlowInit /\ [][FlowNext]_vars

(* =============================== CLAIMS ================================ *)
Rep == activity \in {"pushups", "pullups", "situps"}

\* the count a summary record reports: count, or runs for the shuttle run
ReportedCount(rec) == IF "runs" \in DOMAIN rec THEN rec.runs ELSE rec.count

AllZero(rec) == \A f \in DOMAIN rec : rec[f] = 0

\* C1: the count reported by the summarizer equals the number of
\* completed-event transitions fired during the session (down->up closures,
\* landings, forward->backward reversals); an event still in progress at
\* session end is not counted.
C1_CountIsCompletedEvents ==
  (summary # Null /\ activity # "sitreach") => ReportedCount(summary[1]) = fired

\* C2 as stated: the 4-frame push-up session with elbow angles
\* [170, 60, 60, 170] at [0.0, 0.3, 0.5, 0.8] yields exactly one RepEvent with
\* min_elbow_angle 60, dip_duration_sec 0.5, correct = true, and the summary
\* is count 1, goodReps 1, badReps 0.
C2_OneRepFromFourFrames ==
  scen.c2 = 4 =>
    /\ Len(state.reps) = 1
    /\ state.reps[1].min_elbow_angle = 6000
    /\ state.reps[1].dip_duration_sec = 500
    /\ state.reps[1].correct
    /\ summary # Null =>
         (summary[1].count = 1 /\ summary[1].goodReps = 1 /\ summary[1].badReps = 0)

\* C2 amended: on that 4-frame session the 3-sample moving average is
\* 170, 115, 96.67, 96.67 and never reaches 75, so the phase stays up, no
\* RepEvent is emitted and the summary is count 0, goodReps 0, badReps 0.
C2_NoRepFromFourFrames ==
  scen.c2 = 4 =>
    /\ state.reps = <<>>
    /\ state.state = "up"
    /\ ~seen.below76
    /\ last.op = "frame" => (last.ret = Null /\ 3 * last.sm[1] = (60 + 60 + 170) * Unit)
    /\ summary # Null =>
         (summary[1].count = 0 /\ summary[1].goodReps = 0 /\ summary[1].badReps = 0)

C2_Witness == scen.c2 = 4 /\ summary # Null

\* C3 as stated: hip height 400 px at baseline, 340 px at t = 1.0 and 398 px
\* at t = 1.6 (the heights of the frames fed) yields exactly one JumpEvent
\* with jump_height_px = 60 and air_time_s = 0.6.
C3_JumpFromRawHeights ==
  scen.c3raw = 3 =>
    /\ last.op = "frame" => last.ret # Null
    /\ Len(state.jumpData) = 1
    /\ state.jumpData[1].jump_height_px = 6000
    /\ state.jumpData[1].air_time_s = 600

\* C3 amended: when the smoothed hip height (the 5-sample moving average the
\* detector acts on) is 400 px at baseline, 340 px at t = 1.0 and 398 px in
\* the next frame at t = 1.6, that frame returns the one JumpEvent of the
\* session, with jump_height_px = 60 and air_time_s = 0.6.
C3_JumpFromSmoothedHeights ==
  scen.c3sm = 3 =>
    /\ Len(state.jumpData) = 1
    /\ state.jumpData[1].jump_height_px = 6000
    /\ state.jumpData[1].air_time_s = 600
    /\ state.jumpData[1].takeoff_time = 1000
    /\ state.jumpData[1].landing_time = Some(1600)
    /\ ~state.inAir
    /\ last.op = "frame" => last.ret = Some(state.jumpData[1])

C3_Witness == scen.c3sm = 3 /\ last.op = "frame"

\* C4: summarizing a freshly initialised state (zero frames fed) returns a
\* record whose every field is zero, and the call does not throw.
C4_EmptySessionAllZero ==
  (nframes = 0 /\ summary # Null) => (AllZero(summary[1]) /\ ~last.thrown)

C4_Witness == nframes = 0 /\ summary # Null /\ activity = "sitreach"

C6_CountsNeverDecrease ==
  [][/\ activity = "shuttlerun" => state'.runCount >= state.runCount
     /\ Rep => \A i, j \in 1..Len(state'.reps) : i < j => state'.reps[i].count <= state'.reps[j].count]_vars

C6_Witness == activity = "shuttlerun" /\ state.runCount = 1 /\ last.op = "frame"

\* C7: a push-up phase in up goes down on a frame whose smoothed angle is 75
\* or less (exactly 75 included); a phase in down closes on a frame whose
\* smoothed angle is 110 or more (exactly 110 included), and the rep emitted
\* is correct when the frame comes at least 0.2 s after the dip started; a
\* session whose smoothed angle never went below 76 is in up with no rep.
C7_ThresholdBoundary ==
  [][(activity = "pushups" /\ last'.op = "frame") =>
       /\ (last'.sm # Null /\ state.state = "up" /\ last'.sm[1] <= 75 * Unit) =>
            (state'.state = "down" /\ state'.dipStartTime = clock' /\ last'.ret = Null)
       /\ (last'.sm # Null /\ state.state = "down" /\ last'.sm[1] >= 110 * Unit) =>
            /\ last'.ret # Null
            /\ state'.state = "up"
            /\ clock'[1] - state.dipStartTime[1] >= 200 => last'.ret[1].correct
       /\ ~seen'.below76 => (state'.state = "up" /\ state'.reps = <<>> /\ last'.ret = Null)]_vars

C7_Witness ==
  /\ activity = "pushups" /\ last.op = "frame" /\ last.ret # Null
  /\ last.sm = Some(110 * Unit)
  /\ last.ret[1].min_elbow_angle = 7500
  /\ last.ret[1].dip_duration_sec >= 200
  /\ last.ret[1].correct

\* C8: while every smoothed elbow angle of a push-up session has been between
\* 90 and 100 degrees, the phase is up and the ledger is empty.
C8_HysteresisStability ==
  (activity = "pushups" /\ ~seen.outOfBand) =>
    (state.state = "up" /\ state.reps = <<>> /\ last.ret = Null /\ fired = 0)

C8_Witness ==
  /\ activity = "pushups" /\ ~seen.outOfBand /\ nframes = MaxPushupFrames
  /\ Len(state.angleHistory) = 3
  /\ state.angleHistory[1] # state.angleHistory[2]
  /\ state.angleHistory[2] # state.angleHistory[3]

\* C9: a jump is appended to jumpData only at landing: the ledger length
\* equals the number of landed jumps and no entry is an in-flight jump.
C9_LedgerHoldsLandedJumps ==
  activity = "verticaljump" =>
    /\ Len(state.jumpData) = fired
    /\ \A i \in 1..Len(state.jumpData) : state.jumpData[i].landing_time # Null

\* C10: no frame-analysis call throws on a non-empty landmark array in which
\* a joint it needs is absent.
C10_NeverThrows == ~last.thrown

\* a non-empty landmark array in which a joint the activity reads is absent
MissingJoint(key, landmarks) ==
  landmarks.len > 0 /\ \E i \in RequiredJoints(key) : ~Has(landmarks, i)

\* the buffers, phase, ledger and counters of a state: every field except the
\* one-time head baseline of the pull-up detector
Core(st) == [f \in DOMAIN st \ {"initialHeadY"} |-> st[f]]

\* C11: a frame-analysis call on a frame in which a joint required by the
\* activity is missing pushes no sample (it computes no smoothed value) and
\* leaves the buffers, phase, ledger and counters as they were.
C11_MissingJointFrameSkipped ==
  [][(last'.op = "frame" /\ MissingJoint(activity, frame'[1])) =>
       (last'.sm = Null /\ Core(state') = Core(state))]_vars

\* a zero-length vector from the elbow: it coincides with the shoulder or wrist
Degenerate(arm) == arm.mag1 * arm.mag2 = 0

\* C13: when an arm of the frame is degenerate the elbow angle is unavailable
\* (null) and the rep detector skips the frame: no smoothed value, no event.
C13_DegenerateAngleUnavailable ==
  (/\ last.op = "frame" /\ Rep
   /\ frame[1].len > 0 /\ ~MissingJoint(activity, frame[1])
   /\ (Degenerate(frame[1].armL) \/ Degenerate(frame[1].armR))) =>
    /\ ElbowAngle(frame[1]) = Null
    /\ last.sm = Null
    /\ last.ret = Null

\* smoothing window length of each detector
WindowOf(key) == IF key \in {"pushups", "pullups"} THEN 3 ELSE 5

\* the smoothing buffer of a state
Buffer(key, st) ==
  CASE key \in {"pushups", "pullups", "situps"} -> st.angleHistory
    [] key = "verticaljump" -> st.hipHistory
    [] key = "shuttlerun" -> st.xHistory
    [] key = "sitreach" -> st.reachHistory

LastN(s, n) == IF Len(s) <= n THEN s ELSE SubSeq(s, Len(s) - n + 1, Len(s))

\* C14: the smoothing buffer holds exactly the last min(k, N) accepted raw
\* samples in arrival order (N = 3 for push-up and pull-up, 5 for the others),
\* and the smoothed value of an accepted frame is the arithmetic mean of the
\* samples then in the buffer.
C14_BufferIsLastSamples ==
  LET buf == Buffer(activity, state) IN
  /\ buf = LastN(accepted, WindowOf(activity))
  /\ (last.op = "frame" /\ last.sm # Null) =>
       (buf # <<>> /\ last.sm[1] * Len(buf) = Sum(buf))

C14_Witness ==
  /\ WindowOf(activity) = 5 /\ last.op = "frame" /\ last.sm # Null
  /\ Len(accepted) > 5
  /\ accepted[1] # accepted[6]
  /\ Buffer(activity, state)[1] # Buffer(activity, state)[5]

\* the ledger of a state (the shuttle run keeps none)
Ledger(key, st) ==
  CASE key \in {"pushups", "pullups", "situps"} -> st.reps
    [] key = "verticaljump" -> st.jumpData
    [] key = "sitreach" -> st.reachData

AppendOnly(old, new) ==
  new = old \/ (Len(new) = Len(old) + 1 /\ SubSeq(new, 1, Len(old)) = old)

\* C15: every step leaves the push-up, pull-up, sit-up and vertical-jump
\* ledgers and the sit-and-reach series unchanged or extended by exactly one
\* entry at the end; no existing entry is removed, reordered or modified.
C15_LedgerAppendOnly ==
  [][activity # "shuttlerun" =>
       AppendOnly(Ledger(activity, state), Ledger(activity, state'))]_vars

\* C12: a frame-analysis call whose timestamp is smaller than that of the
\* previous call on the same state fails (an error outcome) and leaves the
\* state as it was.
C12_EarlierTimestampFails ==
  [][(last'.op = "frame" /\ clock # Null /\ clock'[1] < clock[1]) =>
       (last'.thrown /\ state' = state)]_vars

\* C16: two states produced by two separate init calls share no mutable
\* state: a step that is not a frame-analysis call on an object (the init
\* call of the other object, or any call on the other object) leaves every
\* field reachable from it unchanged.
C16_StatesAreDisjoint ==
  [][\A j \in 1..Len(objs) :
       objs'[j].calls = objs[j].calls => Deref(heap', objs'[j]) = Deref(heap, objs[j])]_vars

C16_Witness ==
  /\ Len(objs) = 2
  /\ objs[1].calls > 0 /\ objs[2].calls > 0
  /\ Deref(heap, objs[1]) # initState(activity)
  /\ Deref(heap, objs[2]) # initState(activity)
  /\ Deref(heap, objs[1]) # Deref(heap, objs[2])

\* C17: in a live session exactly one ActivityState exists from start to
\* stop: until Stop is pressed stateRef still holds the state created at
\* session start, and that state is the one the summarizer reads at stop.
C17_OneStatePerSession ==
  /\ live.stops = 0 => live.gen = 1
  /\ live.stops > 0 => live.sumGen = 1

\* C18: however many times Stop Workout fires, the summarizer runs and
\* onFinish is invoked at most once per live session.
C18_FinishAtMostOnce == live.finishes <= 1

\* C19: once handleStop has run, no frame-analysis call is made: no pose
\* result delivered after the stop is fed to the ActivityState.
C19_NoFrameAfterStop ==
  [][live.stops > 0 => (nframes' = nframes /\ (last'.op = "frame" => state' = state))]_vars

\* C20: the timestamps passed to the frame-analysis function of a live
\* session never decrease from one call to the next.
C20_LiveTimestampsMonotonic ==
  [][(nframes' = nframes + 1 /\ clock # Null) => clock'[1] >= clock[1]]_vars

HeadY(landmarks) ==
  IF landmarks.len > 0 /\ Has(landmarks, 0)
  THEN Some(lmY(landmarks, 0, (CHOOSE wh \in FrameSizes : TRUE)[2])) ELSE Null

\* C22: the pull-up head baseline is captured exactly once, from the first
\* frame that has a nose landmark: while unset it becomes the head height of
\* the frame fed (if it has one), and once set no step changes it.
C22_BaselineCapturedOnce ==
  [][activity = "pullups" =>
       IF state.initialHeadY # Null \/ last'.op # "frame"
       THEN state'.initialHeadY = state.initialHeadY
       ELSE state'.initialHeadY = HeadY(frame'[1])]_vars

C22_Witness ==
  /\ activity = "pullups" /\ last.op = "frame"
  /\ state.initialHeadY # Null
  /\ HeadY(frame[1]) # Null
  /\ HeadY(frame[1]) # state.initialHeadY
  /\ state.state = "up"

Unanimous(dirs, d) == Len(dirs) = 3 /\ \A i \in 1..3 : dirs[i] = d

\* C23: the shuttle runCount changes only by +1, and only in a frame whose
\* direction history is three times backward while the confirmed direction
\* before the frame was forward (so never on the first confirmation, on a
\* flip to forward, or without a unanimous history).
C23_RunCountedOnFlipToBackward ==
  [][(activity = "shuttlerun" /\ state'.runCount # state.runCount) =>
       /\ state'.runCount = state.runCount + 1
       /\ last'.op = "frame"
       /\ Unanimous(state'.dirHistory, "backward")
       /\ state.startX # Null
       /\ state.direction = Some("forward")
       /\ state'.direction = Some("backward")]_vars

C23_Witness ==
  /\ activity = "shuttlerun" /\ last.op = "frame"
  /\ state.runCount = 1 /\ fired = 1
  /\ last.ret = Some([runCount |-> 1, status |-> "Returning"])
  /\ Len(state.positions) = 7

\* C24: a push-up dip shorter than 0.2 s is not emitted, so every rep in the
\* ledger has dip_duration_sec >= 0.2.
C24_ShortDipsNotEmitted ==
  activity = "pushups" =>
    \A i \in 1..Len(state.reps) : state.reps[i].dip_duration_sec >= 200

\* C25: every push-up RepEvent is emitted on a down -> up transition, reports
\* the smallest smoothed angle over all frames of that dip, and is correct
\* exactly when that minimum is <= 75 degrees and the dip lasted >= 0.2 s.
C25_CorrectIffDeepAndLong ==
  [][(activity = "pushups" /\ last'.op = "frame" /\ last'.ret # Null) =>
       /\ state.state = "down" /\ state'.state = "up"
       /\ seen.dipMin # Null /\ seen.dipStart # Null
       /\ last'.ret[1].min_elbow_angle = ToFixed(seen.dipMin[1], Unit, 2)
       /\ last'.ret[1].correct <=>
            (seen.dipMin[1] <= 75 * Unit /\ clock'[1] - seen.dipStart[1] >= 200)]_vars

C25_Witness ==
  /\ activity = "pushups" /\ last.op = "frame" /\ last.ret # Null
  /\ last.ret[1].correct
  /\ last.ret[1].min_elbow_angle = 7000
  /\ last.ret[1].dip_duration_sec = 300
  /\ Len(state.reps) = 1

\* C26: the pull-up detector leaves waiting only in a frame whose head is
\* strictly above the baseline, and emits a rep only in a frame where the
\* phase is up, the smoothed elbow angle is > 160 degrees, the head is at or
\* below the baseline and >= 0.1 s has passed since the dip started; every
\* emitted rep has dip duration >= 0.1 s and returns the phase to waiting.
C26_PullupTransitions ==
  [][(activity = "pullups" /\ last'.op = "frame") =>
       LET headY == HeadY(frame'[1])
           base == state'.initialHeadY
       IN  /\ (state.state = "waiting" /\ state'.state # "waiting") =>
                (state'.state = "up" /\ headY # Null /\ base # Null /\ headY[1] < base[1])
           /\ (state.state = "up" /\ state'.state # "up") =>
                (state'.state = "waiting" /\ last'.ret # Null)
           /\ last'.ret # Null =>
                /\ state.state = "up" /\ state'.state = "waiting"
                /\ last'.sm # Null /\ last'.sm[1] > 160 * Unit
                /\ headY # Null /\ base # Null /\ headY[1] >= base[1]
                /\ state.dipStartTime # Null
                /\ clock'[1] - state.dipStartTime[1] >= 100
                /\ last'.ret[1].dip_duration_sec >= 10
                /\ state'.reps = Append(state.reps, last'.ret[1])]_vars

C26_Witness ==
  /\ activity = "pullups" /\ last.op = "frame" /\ last.ret # Null
  /\ last.ret[1].dip_duration_sec = 10
  /\ state.state = "waiting" /\ Len(state.reps) = 1
  /\ nframes = 4

\* C27: while the sit-up phase is up it becomes down at the first frame whose
\* smoothed value is >= 15 degrees below the highest smoothed value of the up
\* phase, however many frames the drop took; while down it becomes up, with a
\* rep, at the first frame >= 15 degrees above the lowest of the down phase.
C27_SitupSwingFromPhaseExtreme ==
  [][(activity = "situps" /\ last'.op = "frame" /\ last'.sm # Null /\ seen.ext # Null) =>
       /\ state.state = "up" =>
            (state'.state = "down" <=> seen.ext[1] - last'.sm[1] >= 15 * Unit)
       /\ state.state = "down" =>
            /\ state'.state = "up" <=> last'.sm[1] - seen.ext[1] >= 15 * Unit
            /\ state'.state = "up" <=> last'.ret # Null]_vars

\* C28: every sit-up down -> up closure appends exactly one RepEvent, whatever
\* the time spent down; the event carries angle_change >= 15 and no
\* correctness classification.
C28_SitupClosureAppendsRep ==
  [][(activity = "situps" /\ state.state = "down" /\ state'.state = "up") =>
       /\ last'.ret # Null
       /\ state'.reps = Append(state.reps, last'.ret[1])
       /\ last'.ret[1].angle_change >= 1500
       /\ "correct" \notin DOMAIN last'.ret[1]]_vars

C28_Witness ==
  /\ activity = "situps" /\ last.op = "frame" /\ last.ret # Null
  /\ last.ret[1].up_time - last.ret[1].down_time = 100
  /\ last.ret[1].angle_change >= 1500
  /\ state.state = "up" /\ state.reps = <<last.ret[1]>>

\* C29: every JumpEvent returned at landing has jump_height_px = baseline -
\* apex (baseline the first smoothed hip height, never changed; apex the
\* minimum smoothed hip y from takeoff through the landing frame) and
\* air_time_s = landing timestamp - takeoff timestamp.
C29_JumpHeightIsBaselineMinusApex ==
  [][(activity = "verticaljump" /\ last'.op = "frame" /\ last'.ret # Null) =>
       /\ state.inAir /\ ~state'.inAir
       /\ state'.baselineY = seen'.base /\ state.baselineY = seen'.base
       /\ last'.ret[1].jump_height_px * Unit = (seen'.base[1] - seen'.apex[1]) * 100
       /\ last'.ret[1].air_time_s = clock'[1] - seen'.takeoff[1]]_vars

\* C29, amended: every JumpEvent returned at landing has jump_height_px =
\* baseline - apex rounded to 2 decimals, with baseline and apex as above, and
\* air_time_s = landing timestamp - takeoff timestamp.
C29_JumpHeightRounded ==
  [][(activity = "verticaljump" /\ last'.op = "frame" /\ last'.ret # Null) =>
       /\ state.inAir /\ ~state'.inAir
       /\ state'.baselineY = seen'.base /\ state.baselineY = seen'.base
       /\ last'.ret[1].jump_height_px = ToFixed(seen'.base[1] - seen'.apex[1], Unit, 2)
       /\ last'.ret[1].air_time_s = clock'[1] - seen'.takeoff[1]]_vars

C29_Witness ==
  /\ activity = "verticaljump" /\ last.op = "frame" /\ last.ret # Null
  /\ last.ret[1].jump_height_px = 7867
  /\ last.ret[1].air_time_s = 1800
  /\ seen.apex # Null /\ seen.apex[1] < state.baselineY[1] - 20 * Unit
  /\ ~state.inAir

\* C30: the shuttle detector changes its confirmed direction and status only
\* in a frame where the direction history holds exactly 3 equal entries; a
\* frame whose smoothed-position delta is within 5 px adds no entry, and a
\* larger delta adds its direction as the newest of at most 3; so while the
\* last 3 recorded deltas are not unanimous, direction, status and runCount
\* stay as they are.
C30_ConfirmedOnlyWhenUnanimous ==
  [][activity = "shuttlerun" =>
       LET delta == IF accepted = <<>> \/ accepted' = accepted THEN 0
                    ELSE Mean(LastN(accepted', 5)) - Mean(LastN(accepted, 5))
           moved == \/ state'.direction # state.direction
                    \/ state'.status # state.status
                    \/ state'.runCount # state.runCount
       IN  /\ (delta <= 5 * Unit /\ delta >= 0 - 5 * Unit) =>
                state'.dirHistory = state.dirHistory
           /\ delta > 5 * Unit =>
                state'.dirHistory = LastN(Append(state.dirHistory, "forward"), 3)
           /\ delta < 0 - 5 * Unit =>
                state'.dirHistory = LastN(Append(state.dirHistory, "backward"), 3)
           /\ moved => /\ last'.op = "frame"
                       /\ \E d \in {"forward", "backward"} :
                            Unanimous(state'.dirHistory, d) /\ state'.direction = Some(d)]_vars

C30_Witness ==
  /\ activity = "shuttlerun" /\ last.op = "frame"
  /\ state.dirHistory = <<"forward", "forward", "backward">>
  /\ state.direction = Some("forward") /\ state.status = "Running Towards"
  /\ state.runCount = 0
  /\ Len(state.positions) = 6
  /\ state.positions[6] = state.positions[5]

\* the smoothed value of the k-th accepted frame, from the raw samples
SmoothedAt(key, k) == Mean(LastN(SubSeq(accepted, 1, k), WindowOf(key)))

\* C31: after any non-empty sequence of accepted sit-and-reach frames,
\* maxReachPx is the largest smoothed reach among all samples of the series and
\* timeOfMax is the timestamp of a frame that attained it; every accepted frame
\* appends exactly one ReachSample.
C31_MaxReachIsSeriesMaximum ==
  (activity = "sitreach" /\ accepted # <<>>) =>
    LET n == Len(accepted) IN
    /\ Len(state.reachData) = n
    /\ state.maxReachPx = Max({SmoothedAt("sitreach", k) : k \in 1..n})
    /\ \E k \in 1..n : /\ SmoothedAt("sitreach", k) = state.maxReachPx
                       /\ state.reachData[k].time_s = state.timeOfMax

\* C32: in every reachable push-up state inDip is true exactly when the phase
\* is down, dipStartTime is non-null exactly when inDip is true, and
\* currentDipMinAngle is 180 whenever inDip is false.
C32_PushupDipFieldsAgree ==
  activity = "pushups" =>
    /\ state.inDip <=> state.state = "down"
    /\ state.dipStartTime # Null <=> state.inDip
    /\ ~state.inDip => state.currentDipMinAngle = 180 * Unit

C32_Witness ==
  /\ activity = "pushups" /\ last.op = "frame"
  /\ Len(state.reps) = 1
  /\ state.state = "down" /\ state.inDip /\ state.dipStartTime # Null
  /\ state.currentDipMinAngle < 75 * Unit

\* C33: every push-up rep in the ledger has min_elbow_angle <= 75, so it is
\* correct exactly when its dip lasted >= 0.2 s, and badReps of the summary is
\* the number of reps whose dip was shorter than that.
C33_RecordedRepsAreDeep ==
  activity = "pushups" =>
    /\ \A i \in 1..Len(state.reps) :
         /\ state.reps[i].min_elbow_angle <= 7500
         /\ state.reps[i].correct <=> state.reps[i].dip_duration_sec >= 200
    /\ summary # Null =>
         summary[1].badReps =
           Cardinality({i \in 1..Len(state.reps) : state.reps[i].dip_duration_sec < 200})

C33_Witness ==
  /\ activity = "pushups" /\ summary # Null
  /\ Len(state.reps) = 1
  /\ ~state.reps[1].correct /\ state.reps[1].dip_duration_sec = 100
  /\ state.reps[1].min_elbow_angle = 6000
  /\ summary[1].badReps = 1 /\ summary[1].goodReps = 0

\* the closing conditions of a pull-up dip hold in the frame just analysed:
\* smoothed angle > 160 and head at or below the baseline
ClosingFrame(sm, landmarks, st) ==
  /\ sm # Null /\ sm[1] > 160 * Unit
  /\ HeadY(landmarks) # Null /\ st.initialHeadY # Null
  /\ HeadY(landmarks)[1] >= st.initialHeadY[1]

\* C34: a pull-up frame that meets the closing conditions less than 0.1 s after
\* the dip started emits nothing and discards nothing (the phase stays up with
\* the same dipStartTime); a frame that meets them while the phase is up and
\* >= 0.1 s have passed emits the rep.
C34_EarlyCloseKeepsDipOpen ==
  [][(activity = "pullups" /\ last'.op = "frame" /\ state.state = "up"
      /\ ClosingFrame(last'.sm, frame'[1], state')) =>
       IF clock'[1] - state.dipStartTime[1] < 100
       THEN /\ last'.ret = Null
            /\ state'.state = "up" /\ state'.inDip
            /\ state'.dipStartTime = state.dipStartTime
            /\ state'.reps = state.reps
       ELSE /\ last'.ret # Null
            /\ state'.reps = Append(state.reps, last'.ret[1])]_vars

C34_Witness ==
  /\ activity = "pullups" /\ last.op = "frame" /\ last.ret = Null
  /\ state.state = "up" /\ state.reps = <<>>
  /\ ClosingFrame(last.sm, frame[1], state)
  /\ clock[1] - state.dipStartTime[1] = 50

\* C35: in every reachable vertical-jump state jumpCount is the ledger length,
\* inAir is true exactly when the last entry has landing_time null, every
\* earlier entry has a landing_time, and every landed entry has
\* jump_height_px >= 20.
C35_JumpLedgerShape ==
  activity = "verticaljump" =>
    LET n == Len(state.jumpData) IN
    /\ state.jumpCount = n
    /\ state.inAir <=> (n > 0 /\ state.jumpData[n].landing_time = Null)
    /\ \A i \in 1..n - 1 : state.jumpData[i].landing_time # Null
    /\ \A i \in 1..n : state.jumpData[i].landing_time # Null =>
                         state.jumpData[i].jump_height_px >= 2000

C35_Witness ==
  /\ activity = "verticaljump" /\ last.op = "frame"
  /\ Len(state.jumpData) = 2 /\ state.jumpCount = 2
  /\ state.inAir
  /\ state.jumpData[1].landing_time # Null
  /\ state.jumpData[1].jump_height_px >= 2000
  /\ state.jumpData[2].landing_time = Null

StatusAgrees(st) ==
  /\ st.status \in {"Waiting", "Running Towards", "Returning"}
  /\ st.status = "Waiting" <=> st.direction = Null
  /\ st.direction = Null <=> st.startX = Null
  /\ st.status = "Running Towards" <=> st.direction = Some("forward")
  /\ st.status = "Returning" <=> st.direction = Some("backward")

\* C36: in every reachable shuttle state the status is Waiting, Running
\* Towards or Returning and agrees with the confirmed direction (Waiting with
\* no direction and no startX, Running Towards with forward, Returning with
\* backward), and a status that has left Waiting never returns to it.
C36_StatusFollowsDirection ==
  [][activity = "shuttlerun" =>
       /\ StatusAgrees(state) /\ StatusAgrees(state')
       /\ state.status # "Waiting" => state'.status # "Waiting"]_vars

C36_Witness ==
  /\ activity = "shuttlerun" /\ last.op = "frame"
  /\ state.status = "Returning" /\ state.direction = Some("backward")
  /\ state.runCount = 1 /\ state.startX # Null
  /\ Unanimous(state.dirHistory, "backward")

\* C37: in every reachable shuttle state summarizeShuttle(state).runs is
\* state.runCount: positions holds one entry per accepted frame, and it is
\* empty (the shortcut that returns runs 0) only while runCount is 0.
C37_SummaryRunsIsRunCount ==
  activity = "shuttlerun" =>
    /\ summarizeShuttle(state).runs = state.runCount
    /\ Len(state.positions) = Len(accepted)
    /\ state.positions = <<>> => state.runCount = 0
    /\ summary # Null => summary[1].runs = state.runCount

C37_Witness ==
  /\ activity = "shuttlerun" /\ summary # Null
  /\ state.runCount = 1 /\ summary[1].runs = 1
  /\ Len(state.positions) = 7

\* C38: after every accepted sit-up frame lastExtremeAngle is the smoothed
\* value of that frame, whichever branch was taken, so the 15-degree test of
\* a frame compares its smoothed value with that of the frame before it.
C38_LastExtremeIsLastSmoothed ==
  [][(activity = "situps" /\ last'.op = "frame" /\ last'.sm # Null) =>
       /\ state'.lastExtremeAngle = last'.sm
       /\ accepted # <<>> =>
            LET prev == SmoothedAt("situps", Len(accepted)) IN
            /\ state.state = "up" =>
                 (state'.state = "down" <=> prev - last'.sm[1] >= 15 * Unit)
            /\ state.state = "down" =>
                 (state'.state = "up" <=> last'.sm[1] - prev >= 15 * Unit)]_vars

C38_Witness ==
  /\ activity = "situps" /\ last.op = "frame" /\ last.sm # Null
  /\ state.state = "up" /\ state.reps = <<>>
  /\ state.lastExtremeAngle = last.sm
  /\ seen.ext # Null /\ seen.ext[1] - last.sm[1] >= 15 * Unit

\* C39: for every push-up ledger summarizePushups returns count equal to the
\* ledger length, goodReps equal to the number of reps with correct = true,
\* and goodReps + badReps = count with both non-negative.
C39_PushupSummaryCounts ==
  (activity = "pushups" /\ summary # Null) =>
    /\ summary[1].count = Len(state.reps)
    /\ summary[1].goodReps = Len(SelectSeq(state.reps, LAMBDA r : r.correct))
    /\ summary[1].goodReps + summary[1].badReps = summary[1].count
    /\ summary[1].goodReps >= 0 /\ summary[1].badReps >= 0

C39_Witness ==
  /\ activity = "pushups" /\ summary # Null
  /\ Len(state.reps) = 3
  /\ state.reps[1].correct /\ state.reps[1].dip_duration_sec = 100
  /\ ~state.reps[2].correct /\ state.reps[2].dip_duration_sec = 300
  /\ summary[1].goodReps = 2 /\ summary[1].badReps = 1

\* C40: once the user has stopped a recording manually (or pressed Cancel),
\* no timer started by the earlier Start Recording press changes the stage
\* (the only timer step is processing -> results) and recordingTime is no
\* longer incremented.
C40_NoTimerAfterManualStop ==
  [][(flow.halted /\ flow'.halted /\ flow'.by # "user") =>
       /\ flow'.recordingTime = flow.recordingTime
       /\ flow'.stage # flow.stage =>
            (flow.stage = "processing" /\ flow'.stage = "results")]_vars
====
